---- MODULE Spec2Model ----
(* A model of the static-analysis engine of src/engine.py: the PowerScanner  *)
(* syntax-tree visitor, has_cycle, and scan_directory (directory walk,       *)
(* import graph, dependency audit).  Python strings are TLA+ strings and are *)
(* taken apart character by character, so lower(), split(), strip(), the     *)
(* package-name regular expression and the lexicographic comparison of       *)
(* versions are computed as Python computes them.                            *)
EXTENDS Integers, Sequences, FiniteSets, TLC

VARIABLES
    \* ---- the scanned directory (the input of scan_directory)
    walk,            \* os.walk: the files in walk order, each [root, file, src]
    manifest,        \* requirements.txt: [exists, lines]
    \* ---- scan_directory's locals
    pc,              \* where scan_directory is
    idx,             \* number of walk entries already handled
    py_files,
    all_scanners,
    all_findings,
    printed,         \* what was printed to standard output
    graph,           \* the import graph, a sequence of [key, edges]
    dependencies,    \* the dict of line 272, in insertion order
    dep,             \* number of dependencies already audited
    host,            \* what find_spec and open met on the host, per audited dependency
    cyclic,          \* what has_cycle returned
    exc,             \* the exception that left scan_directory or run_scanner, or "None"
    \* ---- one PowerScanner at work on one file (run_scanner)
    tree,            \* the file at hand: [path, src]
    scanner,         \* the PowerScanner instance
    stmt,            \* number of top-level statements already visited
    fpc,             \* where run_scanner is
    \* ---- calls made from outside the scan of one directory
    report_calls,    \* the calls of PowerScanner.report from outside: [made, todo]
    results,         \* the calls of scan_directory that ended: [findings, host, exc]
    \* ---- memory_space_data's locals (src/data_access.py)
    visitor,         \* the CallGraphVisitor instance
    func_idx,        \* number of keys of the call graph already checked (line 144)
    recursive_funcs,
    all_data,        \* the entry of the file at hand: [kind, call_graph, recursive_functions, error]
    mpc,             \* where memory_space_data is with the file at hand
    \* ---- one call of has_cycle, statement by statement
    hc               \* [pc, keys, key, stack, visited, rec_stack, result, entered]

dirVars == <<walk, manifest, pc, idx, py_files, all_scanners, all_findings,
             printed, graph, dependencies, dep, host, cyclic, exc>>
fileVars == <<tree, scanner, stmt, fpc>>
msdVars == <<visitor, func_idx, recursive_funcs, all_data, mpc>>
extVars == <<report_calls, results, visitor, func_idx, recursive_funcs, all_data, mpc, hc>>
vars == <<walk, manifest, pc, idx, py_files, all_scanners, all_findings,
          printed, graph, dependencies, dep, host, cyclic, exc, tree, scanner, stmt, fpc,
          report_calls, results, visitor, func_idx, recursive_funcs, all_data, mpc, hc>>

-----------------------------------------------------------------------------
(* Bounds of the model.                                                      *)

MaxFiles == 2
MaxLines == 2
MaxStmts == 3
MaxDepth == 6

-----------------------------------------------------------------------------
(* Python str operations.                                                    *)

Char(s, i) == SubSeq(s, i, i)

\* The characters the model uses, in code-point order.
AsciiOrder == "\t\n !#'()+,-./0123456789:;<=>ABCDEFGHIJKLMNOPQRSTUVWXYZ[]_abcdefghijklmnopqrstuvwxyz"

Ord(c) == CHOOSE i \in 1..Len(AsciiOrder) : Char(AsciiOrder, i) = c

UpperChars == "ABCDEFGHIJKLMNOPQRSTUVWXYZ"
LowerChars == "abcdefghijklmnopqrstuvwxyz"
DigitChars == "0123456789"

CharIn(c, chars) == \E i \in 1..Len(chars) : Char(chars, i) = c

\* a < b on str: by code point, a proper prefix is smaller.
RECURSIVE StrLess(_, _)
StrLess(a, b) ==
    IF b = "" THEN FALSE
    ELSE IF a = "" THEN TRUE
    ELSE IF Head(a) = Head(b) THEN StrLess(Tail(a), Tail(b))
    ELSE Ord(Head(a)) < Ord(Head(b))

StrGreater(a, b) == StrLess(b, a)

\* sub in s
Contains(s, sub) ==
    \E i \in 1..(Len(s) - Len(sub) + 1) : SubSeq(s, i, i + Len(sub) - 1) = sub

StartsWith(s, p) == Len(p) <= Len(s) /\ SubSeq(s, 1, Len(p)) = p

EndsWith(s, p) == Len(p) <= Len(s) /\ SubSeq(s, Len(s) - Len(p) + 1, Len(s)) = p

\* s.find(sub) + 1: the first position of sub in s, 0 when there is none.
Find(s, sub) ==
    IF Contains(s, sub)
    THEN CHOOSE i \in 1..(Len(s) - Len(sub) + 1) :
            /\ SubSeq(s, i, i + Len(sub) - 1) = sub
            /\ \A j \in 1..(i - 1) : SubSeq(s, j, j + Len(sub) - 1) # sub
    ELSE 0

\* s.split(sep)[0]
SplitFirst(s, sep) ==
    IF Contains(s, sep) THEN SubSeq(s, 1, Find(s, sep) - 1) ELSE s

\* s.split(sep)[1], for s that contains sep
SplitSecond(s, sep) ==
    SplitFirst(SubSeq(s, Find(s, sep) + Len(sep), Len(s)), sep)

LowerChar(c) ==
    IF CharIn(c, UpperChars)
    THEN Char(LowerChars, CHOOSE i \in 1..Len(UpperChars) : Char(UpperChars, i) = c)
    ELSE c

UpperChar(c) ==
    IF CharIn(c, LowerChars)
    THEN Char(UpperChars, CHOOSE i \in 1..Len(LowerChars) : Char(LowerChars, i) = c)
    ELSE c

RECURSIVE Lower(_)
Lower(s) == IF s = "" THEN "" ELSE LowerChar(Head(s)) \o Lower(Tail(s))

RECURSIVE Upper(_)
Upper(s) == IF s = "" THEN "" ELSE UpperChar(Head(s)) \o Upper(Tail(s))

IsSpace(c) == c \in {" ", "\t", "\n"}

RECURSIVE LStrip(_)
LStrip(s) == IF s # "" /\ IsSpace(Head(s)) THEN LStrip(Tail(s)) ELSE s

RECURSIVE RStrip(_)
RStrip(s) ==
    IF s # "" /\ IsSpace(Char(s, Len(s))) THEN RStrip(SubSeq(s, 1, Len(s) - 1)) ELSE s

Strip(s) == LStrip(RStrip(s))

\* os.path.basename
RECURSIVE Basename(_)
Basename(p) == IF Contains(p, "/") THEN Basename(SubSeq(p, Find(p, "/") + 1, Len(p))) ELSE p

\* os.path.join(a, b) for a relative b
PathJoin(a, b) == IF EndsWith(a, "/") THEN a \o b ELSE a \o "/" \o b

-----------------------------------------------------------------------------
(* Syntax trees (what ast.parse returns).  Every node is a record            *)
(*   [kind, dl, col, s, t, n, kids]                                          *)
(* kind: the node class; dl: its line, counted from the first line of the    *)
(* top-level statement it belongs to; col: col_offset; kids: its child nodes *)
(* in ast.iter_fields order; s, t, n: the fields that are not nodes.         *)

Node(kind, dl, col, s, t, n, kids) ==
    [kind |-> kind, dl |-> dl, col |-> col, s |-> s, t |-> t, n |-> n, kids |-> kids]

\* ast.Name: s = id
Name(id, col) == Node("Name", 0, col, id, "", 0, <<>>)
\* ast.Constant: t = the type of the value (str, bytes, bool, int, NoneType),
\* s = the value as text
Constant(t, s, col) == Node("Constant", 0, col, s, t, 0, <<>>)
\* ast.Attribute: kids = <<value>>, s = attr
Attribute(value, attr, col) == Node("Attribute", 0, col, attr, "", 0, <<value>>)
\* ast.keyword: s = arg, kids = <<value>>
Keyword(arg, value, col) == Node("keyword", 0, col, arg, "", 0, <<value>>)
\* ast.Call: kids = <<func>> \o args \o keywords, n = len(args)
Call(func, args, keywords, col) ==
    Node("Call", 0, col, "", "", Len(args), <<func>> \o args \o keywords)
\* ast.Expr: kids = <<value>>
Expr(value) == Node("Expr", 0, 0, "", "", 0, <<value>>)
\* ast.Assign: kids = targets \o <<value>>, n = len(targets)
Assign(targets, value) == Node("Assign", 0, 0, "", "", Len(targets), targets \o <<value>>)
\* ast.alias: s = name
Alias(name, col) == Node("alias", 0, col, name, "", 0, <<>>)
\* ast.Import: kids = names
Import(names) == Node("Import", 0, 0, "", "", 0, names)
\* ast.ImportFrom: s = module (t = "None" when module is None), n = level
ImportFrom(module, t, level, names) == Node("ImportFrom", 0, 0, module, t, level, names)
\* ast.BinOp: t = the operator class, kids = <<left, right>>
BinOp(left, op, right, col) == Node("BinOp", 0, col, "", op, 0, <<left, right>>)
\* ast.Assert: kids = <<test>>
AssertStmt(test) == Node("Assert", 0, 0, "", "", 0, <<test>>)
\* ast.Tuple: kids = elts
TupleNode(elts, col) == Node("Tuple", 0, col, "", "", 0, elts)
\* ast.Pass on line dl of its statement
PassStmt(dl, col) == Node("Pass", dl, col, "", "", 0, <<>>)
\* ast.ExceptHandler: t = "bare" when type is None, kids = (<<type>>) \o body
ExceptHandler(t, kids, dl) == Node("ExceptHandler", dl, 0, "", t, 0, kids)
\* ast.FunctionDef: s = name, kids = body
FunctionDef(name, body) == Node("FunctionDef", 0, 0, name, "", 0, body)
\* ast.Try: kids = body \o handlers
Try(kids) == Node("Try", 0, 0, "", "", 0, kids)

\* Call fields
CallFunc(node) == node.kids[1]
CallArgs(node) == SubSeq(node.kids, 2, node.n + 1)
CallKeywords(node) == SubSeq(node.kids, node.n + 2, Len(node.kids))
\* Assign fields
AssignTargets(node) == SubSeq(node.kids, 1, node.n)
AssignValue(node) == node.kids[node.n + 1]

\* The number of source lines of a statement.
RECURSIVE MaxDl(_)
MaxDl(node) ==
    LET below == {MaxDl(node.kids[i]) : i \in 1..Len(node.kids)} \cup {node.dl}
    IN  CHOOSE m \in below : \A k \in below : k <= m

Height(statement) == MaxDl(statement) + 1

\* lineno of the i-th statement of a module body
RECURSIVE LineOf(_, _)
LineOf(body, i) == IF i = 1 THEN 1 ELSE LineOf(body, i - 1) + Height(body[i - 1])

-----------------------------------------------------------------------------
(* class PowerScanner                                                        *)

dangerous_sinks ==
    {"eval", "exec", "compile", "input",
     "os.system", "os.popen", "os.execv", "os.execl", "os.spawnv",
     "subprocess.call", "subprocess.check_call", "subprocess.check_output",
     "subprocess.run"}

sensitive_keywords ==
    {"api_key", "password", "secret", "token", "credentials",
     "key", "pwd", "auth", "access_token", "session_id"}

unsafe_modules ==
    {"pickle", "cPickle", "dill", "marshal", "shelve",
     "yaml", "xml.etree.ElementTree", "imp", "cgi", "ftplib", "telnetlib"}

weak_hashes == {"md5", "sha1"}

severities == {"INFO", "LOW", "MEDIUM", "HIGH", "CRITICAL"}

\* PowerScanner.__init__
NewScanner(filename) ==
    [filename |-> filename,
     findings |-> <<>>,
     imported_modules |-> <<>>,
     aliases |-> {},           \* the pairs <<target, source>> of the defaultdict(set)
     sensitive_vars |-> {},
     raised |-> FALSE]         \* an exception is propagating out of visit()

Finding(file, line, col, severity, category, message) ==
    [file |-> file, line |-> line, col |-> col, severity |-> severity,
     category |-> category, message |-> message]

\* report without its fallback: the severity is stored as it is given
report_NoFallback(sc, node, base, severity, category, message) ==
    [sc EXCEPT !.findings =
        Append(@, Finding(sc.filename, base + node.dl, node.col, severity, category, message))]

\* PowerScanner.report; base is the lineno of the statement the node is in
report(sc, node, base, severity, category, message) ==
    LET sev == IF severity \notin severities THEN "MEDIUM" ELSE severity
    IN  [sc EXCEPT !.findings =
            Append(@, Finding(sc.filename, base + node.dl, node.col, sev, category, message))]

\* self.aliases[var]
AliasesOf(sc, var) == {p[2] : p \in {q \in sc.aliases : q[1] = var}}

\* get_all_aliases that stops at the aliases recorded for var itself
get_all_aliases_Direct(sc, var, depth) ==
    [raised |-> FALSE, val |-> {var} \cup AliasesOf(sc, var)]

\* PowerScanner.get_all_aliases: [raised, val].  The recursion has no visited
\* set; depth counts the frames it has open, and the interpreter raises
\* RecursionError when these exceed its limit.
RECURSIVE get_all_aliases(_, _, _)
get_all_aliases(sc, var, depth) ==
    IF depth > MaxDepth
    THEN [raised |-> TRUE, val |-> {}]
    ELSE LET subs == {get_all_aliases(sc, alias, depth + 1) : alias \in AliasesOf(sc, var)}
         IN  IF \E r \in subs : r.raised
             THEN [raised |-> TRUE, val |-> {}]
             ELSE [raised |-> FALSE, val |-> {var} \cup UNION {r.val : r \in subs}]

RECURSIVE Visit(_, _, _)
RECURSIVE VisitAll(_, _, _, _)

\* ast.NodeVisitor.generic_visit: visit every child node in field order
generic_visit(sc, node, base) == VisitAll(sc, node.kids, 1, base)

\* the loop of visit_Import over node.names, from the i-th name on
RECURSIVE ImportLoop(_, _, _, _)
ImportLoop(sc, node, i, base) ==
    IF i > Len(node.kids) THEN sc
    ELSE LET alias == node.kids[i]
             base_name == SplitFirst(alias.s, ".")
             s1 == IF base_name \in unsafe_modules
                   THEN report(sc, node, base, "MEDIUM", "Insecure Import",
                            "Unsafe module '" \o alias.s
                            \o "' can lead to vulnerabilities like RCE or data exposure.")
                   ELSE sc
             s2 == IF ~Contains(alias.s, ".")
                   THEN [s1 EXCEPT !.imported_modules = Append(@, alias.s)]
                   ELSE s1
         IN  ImportLoop(s2, node, i + 1, base)

visit_Import(sc, node, base) == generic_visit(ImportLoop(sc, node, 1, base), node, base)

visit_ImportFrom(sc, node, base) ==
    LET hasModule == node.t # "None" /\ node.s # ""
        base_module == SplitFirst(node.s, ".")
        s1 == IF hasModule /\ base_module \in unsafe_modules
              THEN report(sc, node, base, "MEDIUM", "Insecure Import",
                       "Unsafe module '" \o node.s \o "' imported.")
              ELSE sc
        s2 == IF hasModule /\ node.n = 0
              THEN [s1 EXCEPT !.imported_modules = Append(@, base_module)]
              ELSE s1
    IN  generic_visit(s2, node, base)

\* f"{func_name or full_name}" of visit_Call
CalleeText(node) ==
    LET func == CallFunc(node)
    IN  IF func.kind = "Name" /\ func.s # "" THEN func.s
        ELSE IF func.kind = "Attribute" /\ func.kids[1].kind = "Name"
             THEN func.kids[1].s \o "." \o func.s
             ELSE "None"

\* CallSinks without the test "func_name in self.dangerous_sinks": every
\* direct call is reported
CallSinks_NoMembership(sc, node, base) ==
    LET func == CallFunc(node)
    IN  IF func.kind = "Name"
        THEN report(sc, node, base, "HIGH", "Dangerous Sink",
                 "Execution of interpreted code via '" \o func.s \o "'.")
        ELSE IF func.kind = "Attribute" /\ func.kids[1].kind = "Name"
        THEN LET full_name == func.kids[1].s \o "." \o func.s
                 s1 == IF full_name \in dangerous_sinks
                       THEN report(sc, node, base, "HIGH", "Command Injection",
                                "Potential shell injection via '" \o full_name \o "'.")
                       ELSE sc
             IN  IF func.kids[1].s = "hashlib" /\ func.s \in weak_hashes
                 THEN report(s1, node, base, "MEDIUM", "Weak Cryptography",
                          "Use of weak hash '" \o func.s
                          \o "' - consider stronger alternatives like sha256.")
                 ELSE s1
        ELSE sc

\* CallSinks without the test "node.func.value.id == 'hashlib'": md5 and sha1
\* of any module are reported
CallSinks_WeakAnyModule(sc, node, base) ==
    LET func == CallFunc(node)
    IN  IF func.kind = "Name"
        THEN IF func.s \in dangerous_sinks
             THEN report(sc, node, base, "HIGH", "Dangerous Sink",
                      "Execution of interpreted code via '" \o func.s \o "'.")
             ELSE sc
        ELSE IF func.kind = "Attribute" /\ func.kids[1].kind = "Name"
        THEN LET full_name == func.kids[1].s \o "." \o func.s
                 s1 == IF full_name \in dangerous_sinks
                       THEN report(sc, node, base, "HIGH", "Command Injection",
                                "Potential shell injection via '" \o full_name \o "'.")
                       ELSE sc
             IN  IF func.s \in weak_hashes
                 THEN report(s1, node, base, "MEDIUM", "Weak Cryptography",
                          "Use of weak hash '" \o func.s
                          \o "' - consider stronger alternatives like sha256.")
                 ELSE s1
        ELSE sc

\* visit_Call, lines 78-93: direct calls and attribute calls
CallSinks(sc, node, base) ==
    LET func == CallFunc(node)
    IN  IF func.kind = "Name"
        THEN IF func.s \in dangerous_sinks
             THEN report(sc, node, base, "HIGH", "Dangerous Sink",
                      "Execution of interpreted code via '" \o func.s \o "'.")
             ELSE sc
        ELSE IF func.kind = "Attribute" /\ func.kids[1].kind = "Name"
        THEN LET full_name == func.kids[1].s \o "." \o func.s
                 s1 == IF full_name \in dangerous_sinks
                       THEN report(sc, node, base, "HIGH", "Command Injection",
                                "Potential shell injection via '" \o full_name \o "'.")
                       ELSE sc
             IN  IF func.kids[1].s = "hashlib" /\ func.s \in weak_hashes
                 THEN report(s1, node, base, "MEDIUM", "Weak Cryptography",
                          "Use of weak hash '" \o func.s
                          \o "' - consider stronger alternatives like sha256.")
                 ELSE s1
        ELSE sc

\* CallShell with "kw.value.value == True" for "is True": 1 == True in Python
CallShell_EqualsTrue(sc, node, base) ==
    LET func == CallFunc(node)
        keywords == CallKeywords(node)
        shell_true == \E k \in 1..Len(keywords) :
                          /\ keywords[k].s = "shell"
                          /\ keywords[k].kids[1].kind = "Constant"
                          /\ \/ keywords[k].kids[1].t = "bool" /\ keywords[k].kids[1].s = "True"
                             \/ keywords[k].kids[1].t = "int" /\ keywords[k].kids[1].s = "1"
    IN  IF /\ func.kind = "Attribute"
           /\ func.kids[1].kind = "Name"
           /\ func.kids[1].s = "subprocess"
           /\ func.s \in {"Popen", "call", "check_call", "check_output", "run"}
           /\ shell_true
        THEN report(sc, node, base, "CRITICAL", "Command Injection",
                 "subprocess." \o func.s \o " with shell=True enables shell injection.")
        ELSE sc

\* visit_Call, lines 95-104: subprocess with shell=True
CallShell(sc, node, base) ==
    LET func == CallFunc(node)
        keywords == CallKeywords(node)
        shell_true == \E k \in 1..Len(keywords) :
                          /\ keywords[k].s = "shell"
                          /\ keywords[k].kids[1].kind = "Constant"
                          /\ keywords[k].kids[1].t = "bool"
                          /\ keywords[k].kids[1].s = "True"
    IN  IF /\ func.kind = "Attribute"
           /\ func.kids[1].kind = "Name"
           /\ func.kids[1].s = "subprocess"
           /\ func.s \in {"Popen", "call", "check_call", "check_output", "run"}
           /\ shell_true
        THEN report(sc, node, base, "CRITICAL", "Command Injection",
                 "subprocess." \o func.s \o " with shell=True enables shell injection.")
        ELSE sc

\* visit_Call, lines 106-121: insecure deserialization
CallDeserialize(sc, node, base) ==
    LET func == CallFunc(node)
        keywords == CallKeywords(node)
        module == func.kids[1].s
        safe_loader == \E k \in 1..Len(keywords) :
                           /\ keywords[k].s = "Loader"
                           /\ keywords[k].kids[1].kind = "Attribute"
                           /\ keywords[k].kids[1].s = "SafeLoader"
    IN  IF func.kind = "Attribute" /\ func.kids[1].kind = "Name"
        THEN IF module = "pickle" /\ func.s \in {"load", "loads"}
             THEN report(sc, node, base, "HIGH", "Insecure Deserialization",
                      "'" \o module \o "." \o func.s
                      \o "' can lead to RCE if data is untrusted.")
             ELSE IF module = "yaml" /\ func.s = "load"
             THEN IF ~safe_loader
                  THEN report(sc, node, base, "HIGH", "Insecure Deserialization",
                           "'" \o module \o "." \o func.s
                           \o "' without SafeLoader can be unsafe.")
                  ELSE sc
             ELSE IF module = "xml" /\ func.s \in {"fromstring", "parse"}
             THEN report(sc, node, base, "MEDIUM", "XML Vulnerability",
                      "Potential XXE in '" \o module \o "." \o func.s
                      \o "' - use defusedxml instead.")
             ELSE sc
        ELSE sc

\* CheckArg with the names and aliases of all the assignments of the file at
\* hand, those after the call included
CheckArg_WholeFile(sc, node, arg, base) ==
    IF arg.kind # "Name" THEN sc
    ELSE LET assigns == SelectSeq(tree.src.body, LAMBDA st : st.kind = "Assign")
             full == VisitAll(NewScanner(""), assigns, 1, 1)
             all_aliases == get_all_aliases(full, arg.s, 1)
         IN  IF all_aliases.raised
             THEN [sc EXCEPT !.raised = TRUE]
             ELSE IF full.sensitive_vars \cap all_aliases.val # {}
                  THEN report(sc, node, base, "MEDIUM", "Sensitive Data Exposure",
                           "Sensitive variable '" \o arg.s
                           \o "' (or alias) used in call to " \o CalleeText(node) \o ".")
                  ELSE sc

\* the sensitive-data check of one argument (lines 125-128)
CheckArg(sc, node, arg, base) ==
    IF arg.kind # "Name" THEN sc
    ELSE LET all_aliases == get_all_aliases(sc, arg.s, 1)
         IN  IF all_aliases.raised
             THEN [sc EXCEPT !.raised = TRUE]
             ELSE IF sc.sensitive_vars \cap all_aliases.val # {}
                  THEN report(sc, node, base, "MEDIUM", "Sensitive Data Exposure",
                           "Sensitive variable '" \o arg.s
                           \o "' (or alias) used in call to " \o CalleeText(node) \o ".")
                  ELSE sc

\* visit_Call, lines 123-128: the loop over node.args, from the i-th on
RECURSIVE CallArgsLoop(_, _, _, _)
\* CallArgsLoop over node.args and then the values of node.keywords
CallArgsLoop_WithKeywords(sc, node, i, base) ==
    IF i > Len(node.kids) - 1 \/ sc.raised THEN sc
    ELSE LET arg == IF i <= node.n THEN CallArgs(node)[i] ELSE node.kids[i + 1].kids[1]
         IN  CallArgsLoop(CheckArg(sc, node, arg, base), node, i + 1, base)

CallArgsLoop(sc, node, i, base) ==
    IF i > node.n \/ sc.raised THEN sc
    ELSE CallArgsLoop(CheckArg(sc, node, CallArgs(node)[i], base), node, i + 1, base)

\* visit_Call with the shell=True check ahead of the sink check
visit_Call_ShellFirst(sc, node, base) ==
    LET s1 == CallShell(sc, node, base)
        s2 == CallSinks(s1, node, base)
        s3 == CallDeserialize(s2, node, base)
        s4 == CallArgsLoop(s3, node, 1, base)
    IN  generic_visit(s4, node, base)

\* visit_Call without its closing generic_visit: the children of a call are
\* not visited
visit_Call_NoDescent(sc, node, base) ==
    LET s1 == CallSinks(sc, node, base)
        s2 == CallShell(s1, node, base)
        s3 == CallDeserialize(s2, node, base)
    IN  CallArgsLoop(s3, node, 1, base)

visit_Call(sc, node, base) ==
    LET s1 == CallSinks(sc, node, base)
        s2 == CallShell(s1, node, base)
        s3 == CallDeserialize(s2, node, base)
        s4 == CallArgsLoop(s3, node, 1, base)
    IN  generic_visit(s4, node, base)

\* any(key in var_name for key in self.sensitive_keywords)
HasSensitiveKeyword(id) == \E key \in sensitive_keywords : Contains(Lower(id), key)

\* visit_Assign, lines 135-144: the loop over node.targets, from the i-th on;
\* the result is [sc, is_sensitive]
RECURSIVE AssignLoop(_, _, _, _, _)
AssignLoop(sc, node, i, base, is_sensitive) ==
    IF i > node.n THEN [sc |-> sc, is_sensitive |-> is_sensitive]
    ELSE LET target == node.kids[i]
             value == AssignValue(node)
             secret == /\ target.kind = "Name"
                       /\ HasSensitiveKeyword(target.s)
                       /\ value.kind = "Constant"
             s1 == IF secret
                   THEN report(sc, node, base, "HIGH", "Hardcoded Secret",
                            "Potential sensitive data in variable '" \o target.s \o "'.")
                   ELSE sc
             s2 == IF target.kind = "Name" /\ value.kind = "Name"
                   THEN [s1 EXCEPT !.aliases = @ \cup {<<target.s, value.s>>}]
                   ELSE s1
         IN  AssignLoop(s2, node, i + 1, base, is_sensitive \/ secret)

\* visit_Assign that marks only the targets whose name holds a keyword
visit_Assign_MatchingOnly(sc, node, base) ==
    LET r == AssignLoop(sc, node, 1, base, FALSE)
        names == {node.kids[i].s : i \in {j \in 1..node.n : /\ node.kids[j].kind = "Name"
                                                             /\ HasSensitiveKeyword(node.kids[j].s)}}
        s1 == IF r.is_sensitive
              THEN [r.sc EXCEPT !.sensitive_vars = @ \cup names]
              ELSE r.sc
    IN  generic_visit(s1, node, base)

\* visit_Assign that takes the targets of an assignment that is not sensitive
\* out of sensitive_vars
visit_Assign_Untaint(sc, node, base) ==
    LET r == AssignLoop(sc, node, 1, base, FALSE)
        names == {node.kids[i].s : i \in {j \in 1..node.n : node.kids[j].kind = "Name"}}
        s1 == IF r.is_sensitive
              THEN [r.sc EXCEPT !.sensitive_vars = @ \cup names]
              ELSE [r.sc EXCEPT !.sensitive_vars = @ \ names]
    IN  generic_visit(s1, node, base)

visit_Assign(sc, node, base) ==
    LET r == AssignLoop(sc, node, 1, base, FALSE)
        names == {node.kids[i].s : i \in {j \in 1..node.n : node.kids[j].kind = "Name"}}
        s1 == IF r.is_sensitive
              THEN [r.sc EXCEPT !.sensitive_vars = @ \cup names]
              ELSE r.sc
    IN  generic_visit(s1, node, base)

visit_ExceptHandler(sc, node, base) ==
    LET s1 == IF node.t = "bare"
              THEN report(sc, node, base, "LOW", "Poor Error Handling",
                       "Bare 'except:' can hide important errors - specify exception types.")
              ELSE sc
    IN  generic_visit(s1, node, base)

visit_Assert(sc, node, base) ==
    generic_visit(
        report(sc, node, base, "LOW", "Debug Statement",
            "Assert statements are for debugging and disabled in production (-O flag)."),
        node, base)

\* visit_BinOp without .upper(): the keyword is looked for in the literal as written
visit_BinOp_NoUpper(sc, node, base) ==
    LET left == node.kids[1]
        right == node.kids[2]
        s1 == IF /\ node.t = "Add"
                 /\ left.kind = "Constant"
                 /\ left.t = "str"
                 /\ \E sql_kw \in {"SELECT", "INSERT", "UPDATE", "DELETE"} :
                        Contains(left.s, sql_kw)
                 /\ right.kind # "Constant"
              THEN report(sc, node, base, "MEDIUM", "Potential SQL Injection",
                       "String concatenation in potential SQL query - use parameterized queries.")
              ELSE sc
    IN  generic_visit(s1, node, base)

visit_BinOp(sc, node, base) ==
    LET left == node.kids[1]
        right == node.kids[2]
        s1 == IF /\ node.t = "Add"
                 /\ left.kind = "Constant"
                 /\ left.t = "str"
                 /\ \E sql_kw \in {"SELECT", "INSERT", "UPDATE", "DELETE"} :
                        Contains(Upper(left.s), sql_kw)
                 /\ right.kind # "Constant"
              THEN report(sc, node, base, "MEDIUM", "Potential SQL Injection",
                       "String concatenation in potential SQL query - use parameterized queries.")
              ELSE sc
    IN  generic_visit(s1, node, base)

visit_Attribute(sc, node, base) ==
    LET s1 == IF node.kids[1].kind = "Name" /\ node.kids[1].s = "os" /\ node.s = "environ"
              THEN report(sc, node, base, "LOW", "Sensitive Access",
                       "Access to os.environ may expose sensitive environment variables.")
              ELSE sc
    IN  generic_visit(s1, node, base)

\* ast.NodeVisitor.visit: dispatch on the class of the node.  An exception
\* raised by a visitor propagates: nothing more is visited.
Visit(sc, node, base) ==
    IF sc.raised THEN sc
    ELSE CASE node.kind = "Import" -> visit_Import(sc, node, base)
           [] node.kind = "ImportFrom" -> visit_ImportFrom(sc, node, base)
           [] node.kind = "Call" -> visit_Call(sc, node, base)
           [] node.kind = "Assign" -> visit_Assign(sc, node, base)
           [] node.kind = "ExceptHandler" -> visit_ExceptHandler(sc, node, base)
           [] node.kind = "Assert" -> visit_Assert(sc, node, base)
           [] node.kind = "BinOp" -> visit_BinOp(sc, node, base)
           [] node.kind = "Attribute" -> visit_Attribute(sc, node, base)
           [] OTHER -> generic_visit(sc, node, base)

VisitAll(sc, nodes, i, base) ==
    IF i > Len(nodes) \/ sc.raised THEN sc
    ELSE VisitAll(Visit(sc, nodes[i], base), nodes, i + 1, base)

\* scanner.visit(tree): the Module node has no visitor, so generic_visit
\* visits the statements of its body in order, from the i-th on.
RECURSIVE VisitBody(_, _, _)
VisitBody(sc, body, i) ==
    IF i > Len(body) \/ sc.raised THEN sc
    ELSE VisitBody(Visit(sc, body[i], LineOf(body, i)), body, i + 1)

-----------------------------------------------------------------------------
(* Source files.  A file is known by what ast.parse makes of its text:       *)
(* state "ok" and the Module body, state "syntax_error" and the message of   *)
(* the SyntaxError, or state "missing" (a directory entry os.path.exists     *)
(* denies, such as a dangling symbolic link).                                *)

Src(body) == [state |-> "ok", body |-> body, err |-> ""]
SyntaxErrorSrc ==
    [state |-> "syntax_error", body |-> <<>>, err |-> "invalid syntax (<unknown>, line 1)"]
MissingSrc == [state |-> "missing", body |-> <<>>, err |-> ""]

\* password = "abc123"
S_password_lit == Assign(<<Name("password", 0)>>, Constant("str", "abc123", 11))
\* pw2 = password
S_pw2_password == Assign(<<Name("pw2", 0)>>, Name("password", 6))
\* pw3 = pw2
S_pw3_pw2 == Assign(<<Name("pw3", 0)>>, Name("pw2", 6))
\* password = pw2
S_password_pw2 == Assign(<<Name("password", 0)>>, Name("pw2", 11))
\* pw2 = pw2
S_pw2_pw2 == Assign(<<Name("pw2", 0)>>, Name("pw2", 6))
\* password = password
S_password_password == Assign(<<Name("password", 0)>>, Name("password", 11))
\* send(password)
S_send_password == Expr(Call(Name("send", 0), <<Name("password", 5)>>, <<>>, 0))
\* send(pw2)
S_send_pw2 == Expr(Call(Name("send", 0), <<Name("pw2", 5)>>, <<>>, 0))
\* send(pw3)
S_send_pw3 == Expr(Call(Name("send", 0), <<Name("pw3", 5)>>, <<>>, 0))
\* eval(x)
S_eval == Expr(Call(Name("eval", 0), <<Name("x", 5)>>, <<>>, 0))
\* import a
S_import_a == Import(<<Alias("a", 7)>>)
\* import b
S_import_b == Import(<<Alias("b", 7)>>)
\* import os
S_import_os == Import(<<Alias("os", 7)>>)
\* from a import x
S_from_a == ImportFrom("a", "str", 0, <<Alias("x", 14)>>)

\* The statements that the files of the single-file specification are made of.
StmtPool ==
    {S_password_lit, S_pw2_password, S_pw3_pw2, S_password_pw2, S_pw2_pw2,
     S_password_password, S_send_password, S_send_pw2, S_send_pw3}

SeqsUpTo(S, n) == UNION {[1..k -> S] : k \in 0..n}

-----------------------------------------------------------------------------
(* run_scanner(file_path), one statement of the Module body at a time.       *)

NoScanner == NewScanner("")

InitFileVars ==
    /\ \E body \in SeqsUpTo(StmtPool, MaxStmts), state \in {"ok", "syntax_error", "missing"} :
          /\ state # "ok" => body = <<>>
          /\ tree = [path |-> "proj/m.py",
                     src |-> IF state = "ok" THEN Src(body)
                             ELSE IF state = "syntax_error" THEN SyntaxErrorSrc
                             ELSE MissingSrc]
    /\ scanner = NoScanner
    /\ stmt = 0
    /\ fpc = "start"

\* lines 177-186: the file is opened, read and parsed
Parse ==
    /\ fpc = "start"
    /\ IF tree.src.state = "missing"
       THEN /\ printed' = Append(printed, "Error: " \o tree.path \o " not found.")
            /\ fpc' = "returned"
            /\ UNCHANGED scanner
       ELSE IF tree.src.state = "syntax_error"
       THEN /\ printed' = Append(printed, "Failed to parse " \o tree.path \o ": " \o tree.src.err)
            /\ fpc' = "returned"
            /\ UNCHANGED scanner
       ELSE /\ scanner' = NewScanner(tree.path)
            /\ fpc' = "visiting"
            /\ UNCHANGED printed
    /\ UNCHANGED <<tree, stmt>>
    /\ UNCHANGED <<walk, manifest, pc, idx, py_files, all_scanners, all_findings,
                   graph, dependencies, dep, host, cyclic, exc>>
    /\ UNCHANGED extVars

\* line 187: scanner.visit(tree) reaches the next statement of the body.  An
\* exception that is not a SyntaxError leaves run_scanner.
VisitStmt ==
    /\ fpc = "visiting"
    /\ stmt < Len(tree.src.body)
    /\ LET sc == Visit(scanner, tree.src.body[stmt + 1], LineOf(tree.src.body, stmt + 1))
       IN  /\ scanner' = sc
           /\ IF sc.raised
              THEN fpc' = "raised" /\ stmt' = stmt /\ exc' = "RecursionError"
              ELSE fpc' = "visiting" /\ stmt' = stmt + 1 /\ exc' = exc
    /\ UNCHANGED tree
    /\ UNCHANGED <<walk, manifest, pc, idx, py_files, all_scanners, all_findings,
                   printed, graph, dependencies, dep, host, cyclic>>
    /\ UNCHANGED extVars

\* line 188: return scanner.findings, scanner.imported_modules
ScannerReturn ==
    /\ fpc = "visiting"
    /\ stmt = Len(tree.src.body)
    /\ fpc' = "returned"
    /\ UNCHANGED <<tree, scanner, stmt>>
    /\ UNCHANGED dirVars
    /\ UNCHANGED extVars

\* run_scanner as one step: what it returns, prints and raises
run_scanner(file_path, src) ==
    IF src.state = "missing"
    THEN [findings |-> <<>>, imported_modules |-> <<>>, raised |-> FALSE, exc |-> "None",
          printed |-> <<"Error: " \o file_path \o " not found.">>]
    ELSE IF src.state = "syntax_error"
    THEN [findings |-> <<>>, imported_modules |-> <<>>, raised |-> FALSE, exc |-> "None",
          printed |-> <<"Failed to parse " \o file_path \o ": " \o src.err>>]
    ELSE LET sc == VisitBody(NewScanner(file_path), src.body, 1)
         IN  [findings |-> sc.findings, imported_modules |-> sc.imported_modules,
              raised |-> sc.raised,
              exc |-> IF sc.raised THEN "RecursionError" ELSE "None",
              printed |-> <<>>]

\* has_cycle is not at work
HasCycleIdle ==
    [pc |-> "idle", keys |-> <<>>, key |-> 0, stack |-> <<>>, visited |-> {},
     rec_stack |-> {}, result |-> FALSE, entered |-> <<>>]

\* CallGraphVisitor.__init__ (src/data_access.py); calls is a defaultdict(list),
\* a sequence of [key, edges] in insertion order
NewCallGraphVisitor == [functions |-> {}, calls |-> <<>>, current_func |-> "None"]

\* all_data has no entry for the file at hand
NoEntry == [kind |-> "none", call_graph |-> <<>>, recursive_functions |-> <<>>, error |-> ""]

\* memory_space_data is not at work
InitMsdIdle ==
    /\ visitor = NewCallGraphVisitor
    /\ func_idx = 0
    /\ recursive_funcs = <<>>
    /\ all_data = NoEntry
    /\ mpc = "idle"

\* no call from outside is pending and memory_space_data is not at work
InitExtIdle ==
    /\ report_calls = [made |-> <<>>, todo |-> <<>>]
    /\ results = <<>>
    /\ hc = HasCycleIdle
    /\ InitMsdIdle

InitDirIdle ==
    /\ walk = <<>>
    /\ manifest = [exists |-> FALSE, lines |-> <<>>]
    /\ pc = "idle"
    /\ idx = 0
    /\ py_files = <<>>
    /\ all_scanners = <<>>
    /\ all_findings = <<>>
    /\ printed = <<>>
    /\ graph = <<>>
    /\ dependencies = <<>>
    /\ dep = 0
    /\ host = <<>>
    /\ cyclic = FALSE
    /\ exc = "None"

InitFile == InitFileVars /\ InitDirIdle /\ InitExtIdle

NextFile == Parse \/ VisitStmt \/ ScannerReturn

SpecFile == InitFile /\ [][NextFile]_vars

-----------------------------------------------------------------------------
(* has_cycle(graph).  The graph is a defaultdict(list): a sequence of        *)
(* [key, edges] in insertion order; a node that is no key has no edges.      *)

GraphKeys(g) == [i \in 1..Len(g) |-> g[i].key]

\* graph[node]
GraphGet(g, node) ==
    IF \E i \in 1..Len(g) : g[i].key = node
    THEN g[CHOOSE i \in 1..Len(g) : g[i].key = node].edges
    ELSE <<>>

\* graph[key].append(imp)
GraphAppend(g, key, imp) ==
    IF \E i \in 1..Len(g) : g[i].key = key
    THEN [i \in 1..Len(g) |->
            IF g[i].key = key THEN [g[i] EXCEPT !.edges = Append(@, imp)] ELSE g[i]]
    ELSE Append(g, [key |-> key, edges |-> <<imp>>])

\* dfs(node) of has_cycle, with the sets visited and rec_stack in st; the
\* result is [found, visited, rec_stack].  dfsLoop is its loop over
\* graph[node], from the i-th neighbour on.
RECURSIVE dfs(_, _, _)
RECURSIVE dfsLoop(_, _, _, _)
dfs(g, node, st) ==
    dfsLoop(g, node, 1,
            [found |-> FALSE,
             visited |-> st.visited \cup {node},
             rec_stack |-> st.rec_stack \cup {node}])

\* dfsLoop with "elif neighbor in visited": any visited neighbour is a cycle
dfsLoop_AnyVisited(g, node, i, st) ==
    IF i > Len(GraphGet(g, node))
    THEN [st EXCEPT !.rec_stack = @ \ {node}]
    ELSE LET neighbor == GraphGet(g, node)[i]
         IN  IF neighbor \notin st.visited
             THEN LET r == dfs(g, neighbor, st)
                  IN  IF r.found THEN r ELSE dfsLoop(g, node, i + 1, r)
             ELSE [st EXCEPT !.found = TRUE]

\* dfsLoop without its elif branch: a back edge is not noticed
dfsLoop_NoBackEdge(g, node, i, st) ==
    IF i > Len(GraphGet(g, node))
    THEN [st EXCEPT !.rec_stack = @ \ {node}]
    ELSE LET neighbor == GraphGet(g, node)[i]
         IN  IF neighbor \notin st.visited
             THEN LET r == dfs(g, neighbor, st)
                  IN  IF r.found THEN r ELSE dfsLoop(g, node, i + 1, r)
             ELSE dfsLoop(g, node, i + 1, st)

dfsLoop(g, node, i, st) ==
    IF i > Len(GraphGet(g, node))
    THEN [st EXCEPT !.rec_stack = @ \ {node}]
    ELSE LET neighbor == GraphGet(g, node)[i]
         IN  IF neighbor \notin st.visited
             THEN LET r == dfs(g, neighbor, st)
                  IN  IF r.found THEN r ELSE dfsLoop(g, node, i + 1, r)
             ELSE IF neighbor \in st.rec_stack
                  THEN [st EXCEPT !.found = TRUE]
                  ELSE dfsLoop(g, node, i + 1, st)

\* the loop of has_cycle over list(graph.keys()), from the i-th key on
RECURSIVE has_cycle_loop(_, _, _)
has_cycle_loop(g, i, st) ==
    IF i > Len(g) THEN st
    ELSE IF g[i].key \notin st.visited
         THEN LET r == dfs(g, g[i].key, st)
              IN  IF r.found THEN r ELSE has_cycle_loop(g, i + 1, r)
         ELSE has_cycle_loop(g, i + 1, st)

has_cycle(g) ==
    has_cycle_loop(g, 1, [found |-> FALSE, visited |-> {}, rec_stack |-> {}]).found

-----------------------------------------------------------------------------
(* scan_directory(directory_path)                                            *)

directory_path == "proj"

vulnerable_deps ==
    <<[pkg |-> "urllib3", vulnerable_versions |-> <<"<2.6.0">>,
       cve |-> "CVE-2025-66418",
       description |-> "Unbounded decompression chain leading to high CPU and memory usage."],
      [pkg |-> "python-json-logger", vulnerable_versions |-> <<"3.2.0", "3.2.1">>,
       cve |-> "CVE-2025-27607",
       description |-> "RCE due to dependency hijacking."],
      [pkg |-> "python-socketio", vulnerable_versions |-> <<"<5.14.0">>,
       cve |-> "CVE-2025-61765",
       description |-> "RCE via pickle deserialization."],
      [pkg |-> "aiohttp", vulnerable_versions |-> <<"<3.13.3">>,
       cve |-> "CVE-2025-69224",
       description |-> "Request smuggling with non-ASCII characters."]>>

\* pkg in vulnerable_deps
InVulnerableDeps(pkg) == \E i \in 1..Len(vulnerable_deps) : vulnerable_deps[i].pkg = pkg

\* vulnerable_deps[pkg]
VulnInfo(pkg) ==
    vulnerable_deps[CHOOSE i \in 1..Len(vulnerable_deps) : vulnerable_deps[i].pkg = pkg]

\* os.path.basename(full_path)[:-3]
ModuleName(full_path) ==
    LET base == Basename(full_path) IN SubSeq(base, 1, Len(base) - 3)

\* lines 242-246: the keys of modules_to_files
ModulesToFiles(files) ==
    {ModuleName(files[i]) : i \in 1..Len(files)} \ {"__init__"}

\* lines 252-254: the imports of one scanner, from the j-th on
RECURSIVE GraphOfImports(_, _, _, _, _)
\* GraphOfImports without the test "imp in modules_to_files": every import
\* becomes an edge
GraphOfImports_AllImports(g, module_name, imps, j, modules) ==
    IF j > Len(imps) THEN g
    ELSE GraphOfImports(GraphAppend(g, module_name, imps[j]),
                        module_name, imps, j + 1, modules)

GraphOfImports(g, module_name, imps, j, modules) ==
    IF j > Len(imps) THEN g
    ELSE GraphOfImports(
             IF imps[j] \in modules THEN GraphAppend(g, module_name, imps[j]) ELSE g,
             module_name, imps, j + 1, modules)

\* lines 249-254: the import graph, from the i-th scanner on
RECURSIVE BuildImportGraph(_, _, _, _)
\* BuildImportGraph with the path of the file as the key of its imports
BuildImportGraph_ByPath(g, scanners, i, modules) ==
    IF i > Len(scanners) THEN g
    ELSE BuildImportGraph(
             GraphOfImports(g, scanners[i].filename,
                            scanners[i].imported_modules, 1, modules),
             scanners, i + 1, modules)

BuildImportGraph(g, scanners, i, modules) ==
    IF i > Len(scanners) THEN g
    ELSE BuildImportGraph(
             GraphOfImports(g, ModuleName(scanners[i].filename),
                            scanners[i].imported_modules, 1, modules),
             scanners, i + 1, modules)

CircularImportFinding ==
    Finding(directory_path, 0, 0, "MEDIUM", "Circular Import",
            "Cycle detected in import graph, which may cause runtime issues.")

\* the scanner after the first i entries of w, were one PowerScanner used for
\* all files: aliases and sensitive_vars are kept from file to file
RECURSIVE SharedScanner(_, _)
SharedScanner(w, i) ==
    IF i = 0 THEN NewScanner("")
    ELSE LET prev == SharedScanner(w, i - 1)
             fresh == [prev EXCEPT !.filename = PathJoin(w[i].root, w[i].file),
                                   !.findings = <<>>, !.imported_modules = <<>>]
         IN  IF EndsWith(w[i].file, ".py") /\ w[i].src.state = "ok" /\ ~prev.raised
             THEN VisitBody(fresh, w[i].src.body, 1)
             ELSE prev

\* WalkFile with one PowerScanner for all the files of the scan
WalkFile_SharedScanner ==
    /\ pc = "walk"
    /\ idx < Len(walk)
    /\ idx' = idx + 1
    /\ LET entry == walk[idx + 1]
           full_path == PathJoin(entry.root, entry.file)
           r0 == run_scanner(full_path, entry.src)
           sc == SharedScanner(walk, idx + 1)
           r == IF entry.src.state = "ok"
                THEN [r0 EXCEPT !.findings = sc.findings, !.raised = sc.raised]
                ELSE r0
       IN  IF ~EndsWith(entry.file, ".py")
           THEN UNCHANGED <<pc, py_files, printed, all_findings, all_scanners, exc>>
           ELSE /\ py_files' = Append(py_files, full_path)
                /\ printed' = (Append(printed, "--- Scanning: " \o full_path \o " ---")
                               \o r.printed)
                /\ IF r.raised
                   THEN /\ pc' = "raised"
                        /\ exc' = "RecursionError"
                        /\ UNCHANGED <<all_findings, all_scanners>>
                   ELSE /\ pc' = "walk"
                        /\ exc' = exc
                        /\ all_findings' = all_findings \o r.findings
                        /\ all_scanners' =
                              Append(all_scanners,
                                     [filename |-> full_path,
                                      imported_modules |-> r.imported_modules])
    /\ UNCHANGED <<walk, manifest, graph, dependencies, dep, host, cyclic>>
    /\ UNCHANGED fileVars
    /\ UNCHANGED extVars

\* WalkFile with the findings of a file put in front of those of the files before it
WalkFile_Prepend ==
    /\ pc = "walk"
    /\ idx < Len(walk)
    /\ idx' = idx + 1
    /\ LET entry == walk[idx + 1]
           full_path == PathJoin(entry.root, entry.file)
           r == run_scanner(full_path, entry.src)
       IN  IF ~EndsWith(entry.file, ".py")
           THEN UNCHANGED <<pc, py_files, printed, all_findings, all_scanners, exc>>
           ELSE /\ py_files' = Append(py_files, full_path)
                /\ printed' = (Append(printed, "--- Scanning: " \o full_path \o " ---")
                               \o r.printed)
                /\ IF r.raised
                   THEN /\ pc' = "raised"
                        /\ exc' = r.exc
                        /\ UNCHANGED <<all_findings, all_scanners>>
                   ELSE /\ pc' = "walk"
                        /\ exc' = exc
                        /\ all_findings' = r.findings \o all_findings
                        /\ all_scanners' =
                              Append(all_scanners,
                                     [filename |-> full_path,
                                      imported_modules |-> r.imported_modules])
    /\ UNCHANGED <<walk, manifest, graph, dependencies, dep, host, cyclic>>
    /\ UNCHANGED fileVars
    /\ UNCHANGED extVars

\* lines 228-239: the next entry of os.walk
WalkFile ==
    /\ pc = "walk"
    /\ idx < Len(walk)
    /\ idx' = idx + 1
    /\ LET entry == walk[idx + 1]
           full_path == PathJoin(entry.root, entry.file)
           r == run_scanner(full_path, entry.src)
       IN  IF ~EndsWith(entry.file, ".py")
           THEN UNCHANGED <<pc, py_files, printed, all_findings, all_scanners, exc>>
           ELSE /\ py_files' = Append(py_files, full_path)
                /\ printed' = (Append(printed, "--- Scanning: " \o full_path \o " ---")
                               \o r.printed)
                /\ IF r.raised
                   THEN /\ pc' = "raised"
                        /\ exc' = r.exc
                        /\ UNCHANGED <<all_findings, all_scanners>>
                   ELSE /\ pc' = "walk"
                        /\ exc' = exc
                        /\ all_findings' = all_findings \o r.findings
                        /\ all_scanners' =
                              Append(all_scanners,
                                     [filename |-> full_path,
                                      imported_modules |-> r.imported_modules])
    /\ UNCHANGED <<walk, manifest, graph, dependencies, dep, host, cyclic>>
    /\ UNCHANGED fileVars
    /\ UNCHANGED extVars

\* lines 241-265: the import graph and its cycle check
BuildGraph ==
    /\ pc = "walk"
    /\ idx = Len(walk)
    /\ LET g == BuildImportGraph(<<>>, all_scanners, 1, ModulesToFiles(py_files))
       IN  /\ graph' = g
           /\ cyclic' = has_cycle(g)
           /\ all_findings' = IF has_cycle(g)
                              THEN Append(all_findings, CircularImportFinding)
                              ELSE all_findings
    /\ pc' = "sca"
    /\ UNCHANGED <<walk, manifest, idx, py_files, all_scanners, printed, dependencies, dep,
                   host, exc>>
    /\ UNCHANGED fileVars
    /\ UNCHANGED extVars

\* line 271: the stripped lines of the manifest that are kept, from the i-th on
RECURSIVE KeptLines(_, _)
KeptLines(raw, i) ==
    IF i > Len(raw) THEN <<>>
    ELSE IF Strip(raw[i]) # "" /\ ~StartsWith(raw[i], "#")
         THEN <<Strip(raw[i])>> \o KeptLines(raw, i + 1)
         ELSE KeptLines(raw, i + 1)

IsPkgChar(c) == CharIn(c, LowerChars) \/ CharIn(c, UpperChars) \/ CharIn(c, DigitChars)
                \/ c \in {"_", "-", "."}

\* re.match(r'^([a-zA-Z0-9_\-\.]+)', line).group(1); "" when there is no match
RECURSIVE PkgPrefix(_)
PkgPrefix(line) ==
    IF line # "" /\ IsPkgChar(Head(line)) THEN Head(line) \o PkgPrefix(Tail(line)) ELSE ""

\* DepPut on a list of pairs: every line keeps its own entry
DepPut_Append(deps, pkg, hasVer, ver) ==
    Append(deps, [pkg |-> pkg, hasVer |-> hasVer, ver |-> ver])

\* dependencies[pkg_name] = ver on a dict that keeps insertion order.  None is
\* hasVer = FALSE.
DepPut(deps, pkg, hasVer, ver) ==
    LET e == [pkg |-> pkg, hasVer |-> hasVer, ver |-> ver]
    IN  IF \E i \in 1..Len(deps) : deps[i].pkg = pkg
        THEN [i \in 1..Len(deps) |-> IF deps[i].pkg = pkg THEN e ELSE deps[i]]
        ELSE Append(deps, e)

\* lines 274-286: the dict dependencies, from the i-th kept line on
RECURSIVE ParseDependencies(_, _, _)
ParseDependencies(deps, lines, i) ==
    IF i > Len(lines) THEN deps
    ELSE LET line == lines[i]
             pkg_name == PkgPrefix(line)
             hasVer == Contains(line, "==")
             ver == IF hasVer THEN Strip(SplitSecond(line, "==")) ELSE ""
         IN  ParseDependencies(
                 IF pkg_name # "" THEN DepPut(deps, pkg_name, hasVer, ver) ELSE deps,
                 lines, i + 1)

\* lines 296-305: one range of vulnerable_versions against ver
RangeMatches(ver, vrange) ==
    IF StartsWith(vrange, "<") THEN StrLess(ver, SubSeq(vrange, 2, Len(vrange)))
    ELSE IF StartsWith(vrange, ">") THEN StrGreater(ver, SubSeq(vrange, 2, Len(vrange)))
    ELSE ver = vrange

\* lines 292-305: the flag vulnerable
IsVulnerable(d, vuln_info) ==
    IF ~d.hasVer THEN TRUE
    ELSE \E k \in 1..Len(vuln_info.vulnerable_versions) :
             RangeMatches(d.ver, vuln_info.vulnerable_versions[k])

req_path == PathJoin(directory_path, "requirements.txt")

VulnerableFinding(d, vuln_info) ==
    Finding(req_path, 0, 0, "HIGH", "Vulnerable Dependency",
            "Vulnerable dependency " \o d.pkg \o " "
            \o (IF d.hasVer /\ d.ver # "" THEN d.ver ELSE "unspecified")
            \o ": " \o vuln_info.description \o " (" \o vuln_info.cve \o ")")

\* the digest is that of a file the model does not hold
HashFinding(d) ==
    Finding(req_path, 0, 0, "INFO", "Dependency Hash",
            "SHA256 hash for " \o d.pkg \o " (__file__): " \o "<hexdigest>")

\* importlib.util.find_spec(pkg) on the host, then open(spec.origin):
\*   "none"        no module of that name: find_spec returns None
\*   "no_origin"   a spec without origin (a namespace package)
\*   "unreadable"  spec.origin cannot be opened or read
\*   "readable"    spec.origin is read
\*   "raise"       find_spec raises: a name with a leading dot is a relative
\*                 name without a package (ImportError); for a dotted name the
\*                 parent is imported first, and ModuleNotFoundError is raised
\*                 when the host does not have it
FindSpecOutcomes(pkg) ==
    IF StartsWith(pkg, ".") THEN {"raise"}
    ELSE IF Contains(pkg, ".")
         THEN {"none", "no_origin", "unreadable", "readable", "raise"}
         ELSE {"none", "no_origin", "unreadable", "readable"}

\* lines 268-286: the manifest is read, when there is one
ReadManifest ==
    /\ pc = "sca"
    /\ manifest.exists
    /\ dependencies' = ParseDependencies(<<>>, KeptLines(manifest.lines, 1), 1)
    /\ dep' = 0
    /\ pc' = "audit"
    /\ UNCHANGED <<walk, manifest, idx, py_files, all_scanners, all_findings, printed, graph,
                   host, cyclic, exc>>
    /\ UNCHANGED fileVars
    /\ UNCHANGED extVars

\* lines 288-332: one turn of the loop over dependencies.items()
AuditDep ==
    /\ pc = "audit"
    /\ dep < Len(dependencies)
    /\ dep' = dep + 1
    /\ \E outcome \in FindSpecOutcomes(dependencies[dep + 1].pkg) :
          LET d == dependencies[dep + 1]
              f1 == IF InVulnerableDeps(d.pkg) /\ IsVulnerable(d, VulnInfo(d.pkg))
                    THEN Append(all_findings, VulnerableFinding(d, VulnInfo(d.pkg)))
                    ELSE all_findings
          IN  /\ all_findings' = IF outcome = "readable" THEN Append(f1, HashFinding(d)) ELSE f1
              /\ host' = Append(host, outcome)
              /\ pc' = IF outcome = "raise" THEN "raised" ELSE "audit"
              /\ exc' = IF outcome = "raise" THEN "ImportError" ELSE exc
    /\ UNCHANGED <<walk, manifest, idx, py_files, all_scanners, printed, graph, dependencies,
                   cyclic>>
    /\ UNCHANGED fileVars
    /\ UNCHANGED extVars

\* line 334: return all_findings
Return ==
    /\ \/ pc = "sca" /\ ~manifest.exists
       \/ pc = "audit" /\ dep = Len(dependencies)
    /\ pc' = "done"
    /\ UNCHANGED <<walk, manifest, idx, py_files, all_scanners, all_findings, printed,
                   graph, dependencies, dep, host, cyclic, exc>>
    /\ UNCHANGED fileVars
    /\ results' = Append(results, [findings |-> all_findings, host |-> host, exc |-> "None"])
    /\ UNCHANGED <<report_calls, msdVars, hc>>

Next == WalkFile \/ BuildGraph \/ ReadManifest \/ AuditDep \/ Return

-----------------------------------------------------------------------------
(* The directories scanned.                                                  *)

WalkEntry(root, file, src) == [root |-> root, file |-> file, src |-> src]

FilePool ==
    {WalkEntry("proj", "a.py", Src(<<S_import_b, S_eval>>)),
     WalkEntry("proj", "a.py", Src(<<S_import_os, S_import_a>>)),
     WalkEntry("proj", "b.py", Src(<<S_import_a>>)),
     WalkEntry("proj", "c.py", SyntaxErrorSrc),
     WalkEntry("proj", "d.py", Src(<<S_pw2_pw2, S_send_pw2>>)),
     WalkEntry("proj", "e.py", MissingSrc),
     WalkEntry("proj", "__init__.py", Src(<<S_import_a>>)),
     WalkEntry("proj", "notes.txt", MissingSrc),
     WalkEntry("proj/sub", "b.py", Src(<<S_from_a, S_password_lit, S_send_password>>))}

\* os.walk is top-down: the files of a directory come before those of its
\* subdirectories, and no path comes twice.
IsWalk(w) ==
    /\ \A i, j \in 1..Len(w) :
          i < j => /\ PathJoin(w[i].root, w[i].file) # PathJoin(w[j].root, w[j].file)
                   /\ Len(w[i].root) <= Len(w[j].root)

Walks(n) == {w \in SeqsUpTo(FilePool, n) : IsWalk(w)}

Manifest(lines) == [exists |-> TRUE, lines |-> lines]
NoManifest == [exists |-> FALSE, lines |-> <<>>]

LinePool ==
    {"urllib3==1.0.0\n",
     "urllib3==3.0.0\n",
     "urllib3\n",
     "urllib3>=1.0\n",
     " urllib3 == 2.6.0 \n",
     "python-json-logger==3.2.1\n",
     "python-json-logger==3.2.2\n",
     "aiohttp==10.0.0\n",
     "aiohttp==\n",
     "zope.interface==5.0\n",
     "requests==2.0\n",
     "# urllib3==1.0.0\n"}

InitScanLocals ==
    /\ pc = "walk"
    /\ idx = 0
    /\ py_files = <<>>
    /\ all_scanners = <<>>
    /\ all_findings = <<>>
    /\ printed = <<>>
    /\ graph = <<>>
    /\ dependencies = <<>>
    /\ dep = 0
    /\ host = <<>>
    /\ cyclic = FALSE
    /\ exc = "None"

InitFileIdle ==
    /\ tree = [path |-> "", src |-> MissingSrc]
    /\ scanner = NoScanner
    /\ stmt = 0
    /\ fpc = "idle"

\* directories of up to MaxFiles files, with or without a manifest
Init ==
    /\ walk \in Walks(MaxFiles)
    /\ manifest \in {NoManifest, Manifest(<<"urllib3==1.0.0\n", "requests==2.0\n">>)}
    /\ InitScanLocals
    /\ InitFileIdle
    /\ InitExtIdle

Spec == Init /\ [][Next]_vars

\* directories of one file and a manifest of up to MaxLines lines
InitDeps ==
    /\ walk \in {<<e>> : e \in {f \in FilePool : f.file = "a.py"}}
    /\ manifest \in {NoManifest} \cup {Manifest(l) : l \in SeqsUpTo(LinePool, MaxLines)}
    /\ InitScanLocals
    /\ InitFileIdle
    /\ InitExtIdle

SpecDeps == InitDeps /\ [][Next]_vars

-----------------------------------------------------------------------------
(* has_cycle on the graphs that graph[key].append(imp) can build.            *)

MaxEdges == 4

GraphNodes == {"a", "b", "c"}

\* the graph built by appending the edges of es, from the i-th on
RECURSIVE GraphFromEdges(_, _, _)
GraphFromEdges(g, es, i) ==
    IF i > Len(es) THEN g
    ELSE GraphFromEdges(GraphAppend(g, es[i][1], es[i][2]), es, i + 1)

InitGraph ==
    /\ graph \in {GraphFromEdges(<<>>, es, 1) :
                    es \in SeqsUpTo(GraphNodes \X GraphNodes, MaxEdges)}
    /\ pc = "has_cycle"
    /\ walk = <<>>
    /\ manifest = NoManifest
    /\ idx = 0
    /\ py_files = <<>>
    /\ all_scanners = <<>>
    /\ all_findings = <<>>
    /\ printed = <<>>
    /\ dependencies = <<>>
    /\ dep = 0
    /\ host = <<>>
    /\ cyclic = FALSE
    /\ exc = "None"
    /\ InitFileIdle
    /\ InitExtIdle

\* has_cycle(graph) is called and returns
HasCycleCall ==
    /\ pc = "has_cycle"
    /\ cyclic' = has_cycle(graph)
    /\ pc' = "has_cycle_done"
    /\ UNCHANGED <<walk, manifest, idx, py_files, all_scanners, all_findings, printed,
                   graph, dependencies, dep, host, exc>>
    /\ UNCHANGED fileVars
    /\ UNCHANGED extVars

NextGraph == HasCycleCall

SpecGraph == InitGraph /\ [][NextGraph]_vars

-----------------------------------------------------------------------------
(* Notions the properties are stated with.                                   *)

Range(f) == {f[i] : i \in DOMAIN f}

IsPrefix(a, b) == Len(a) <= Len(b) /\ SubSeq(b, 1, Len(a)) = a

IsPy(entry) == EndsWith(entry.file, ".py")
PathOf(entry) == PathJoin(entry.root, entry.file)

\* the findings of all_findings that are about the file path
FindingsOfFile(path) == SelectSeq(all_findings, LAMBDA f : f.file = path)

FindingsOfCategory(category) == SelectSeq(all_findings, LAMBDA f : f.category = category)

\* the error entry of a file that does not parse: the file and the message
ErrorEntry(entry) == "Failed to parse " \o PathOf(entry) \o ": " \o entry.src.err

\* scan_directory was left by an exception raised while the i-th walk entry
\* was scanned
AbortedAtFile(i) == pc = "raised" /\ idx = i /\ host = <<>>

\* the nodes reachable from the nodes of S, S included
RECURSIVE ReachSet(_, _)
ReachSet(g, S) ==
    LET T == S \cup UNION {Range(GraphGet(g, n)) : n \in S}
    IN  IF T = S THEN S ELSE ReachSet(g, T)

\* n lies on a directed cycle of g
OnCycle(g, n) == n \in ReachSet(g, Range(GraphGet(g, n)))

\* g has a directed cycle reachable from one of its keys
HasDirectedCycle(g) ==
    \E i \in 1..Len(g) : \E n \in ReachSet(g, {g[i].key}) : OnCycle(g, n)

-----------------------------------------------------------------------------
(* C1: in a scan where a .py file does not parse, scan_directory does not    *)
(* abort, exactly one error entry (file, message) is recorded for that file, *)
(* and the list returned holds the findings of every other file.             *)
C1_ParseFailureIsolated ==
    \A i \in 1..idx :
        (IsPy(walk[i]) /\ walk[i].src.state = "syntax_error") =>
            /\ pc # "raised"
            /\ Cardinality({k \in 1..Len(printed) : printed[k] = ErrorEntry(walk[i])}) = 1
            /\ FindingsOfFile(PathOf(walk[i])) = <<>>
            /\ pc = "done" =>
                  \A j \in 1..Len(walk) :
                      (j # i /\ IsPy(walk[j])) =>
                          FindingsOfFile(PathOf(walk[j]))
                              = run_scanner(PathOf(walk[j]), walk[j].src).findings

-----------------------------------------------------------------------------
(* C2: for every alias relation the scanner can hold, self-aliasing and      *)
(* mutual aliasing included, get_all_aliases(name) returns a set for every   *)
(* name, and no call is left by an exception of the alias lookup.            *)
AliasNames(sc) == {p[1] : p \in sc.aliases} \cup {p[2] : p \in sc.aliases}

C2_AliasLookupReturns ==
    /\ \A name \in AliasNames(scanner) : ~get_all_aliases(scanner, name, 1).raised
    /\ exc # "RecursionError"

-----------------------------------------------------------------------------
(* C3: after N = <literal> with a sensitive keyword in N, a later call that  *)
(* passes N, or a name linked to N by name-to-name assignments, as a bare    *)
(* positional argument yields one MEDIUM 'Sensitive Data Exposure' finding   *)
(* for that argument.                                                        *)

\* statement s is N = <literal> for a name N with a sensitive keyword
IsSecretAssign(s) ==
    /\ s.kind = "Assign" /\ s.n = 1
    /\ s.kids[1].kind = "Name" /\ s.kids[2].kind = "Constant"
    /\ \E key \in sensitive_keywords : Contains(Lower(s.kids[1].s), key)

\* statement s is t = u for two names
IsNameAssign(s) ==
    s.kind = "Assign" /\ s.n = 1 /\ s.kids[1].kind = "Name" /\ s.kids[2].kind = "Name"

\* the names x is linked to by the name-to-name assignments before statement k
RECURSIVE LinkedNames(_, _, _)
LinkedNames(body, k, S) ==
    LET T == S \cup {body[i].kids[2].s :
                        i \in {j \in 1..(k - 1) : IsNameAssign(body[j])
                                                  /\ body[j].kids[1].s \in S}}
    IN  IF T = S THEN S ELSE LinkedNames(body, k, T)

\* x is, or is linked to, a name given a literal before statement k
TaintedAt(body, k, x) ==
    \E i \in 1..(k - 1) :
        IsSecretAssign(body[i]) /\ body[i].kids[1].s \in LinkedNames(body, k, {x})

IsCallStmt(s) == s.kind = "Expr" /\ s.kids[1].kind = "Call"

\* the findings run_scanner hands to its caller
Returned == IF fpc = "returned" THEN scanner.findings ELSE <<>>

ExposureFindings(line, name) ==
    {i \in 1..Len(Returned) :
        /\ Returned[i].line = line
        /\ Returned[i].severity = "MEDIUM"
        /\ Returned[i].category = "Sensitive Data Exposure"
        /\ Contains(Returned[i].message, "'" \o name \o "'")}

C3_TaintedArgumentFlagged ==
    fpc \in {"returned", "raised"} =>
        \A k \in 1..Len(tree.src.body) :
            IsCallStmt(tree.src.body[k]) =>
                \A a \in 1..tree.src.body[k].kids[1].n :
                    LET arg == CallArgs(tree.src.body[k].kids[1])[a]
                    IN  (arg.kind = "Name" /\ TaintedAt(tree.src.body, k, arg.s)) =>
                            Cardinality(ExposureFindings(LineOf(tree.src.body, k), arg.s)) = 1

-----------------------------------------------------------------------------
(* C4: has_cycle returns true exactly when the graph has a directed cycle    *)
(* (a self-loop counts) reachable from one of its keys.                      *)
C4_HasCycleIffCycle ==
    pc = "has_cycle_done" => (cyclic <=> HasDirectedCycle(graph))

\* has_cycle has returned true for a graph without self-loop
C4_Witness ==
    /\ pc = "has_cycle_done"
    /\ cyclic
    /\ \A i \in 1..Len(graph) : graph[i].key \notin Range(graph[i].edges)

-----------------------------------------------------------------------------
-----------------------------------------------------------------------------
(* C6: in all_findings the findings of the files come first, file by file in *)
(* walk order, then at most one 'Circular Import' finding, then the          *)
(* dependency findings; and a step of the scan only appends to the list.     *)
FindingRank(f) ==
    IF f.category = "Circular Import" THEN Len(py_files) + 1
    ELSE IF f.category \in {"Vulnerable Dependency", "Dependency Hash"} THEN Len(py_files) + 2
    ELSE CHOOSE i \in 1..Len(py_files) : py_files[i] = f.file

C6_OrderOK ==
    /\ \A i \in 1..Len(all_findings) :
          \/ all_findings[i].category
                \in {"Circular Import", "Vulnerable Dependency", "Dependency Hash"}
          \/ all_findings[i].file \in Range(py_files)
    /\ \A i, j \in 1..Len(all_findings) :
          i < j => FindingRank(all_findings[i]) <= FindingRank(all_findings[j])
    /\ Len(FindingsOfCategory("Circular Import")) <= 1

C6_OrderedAppendOnly ==
    /\ []C6_OrderOK
    /\ [][IsPrefix(all_findings, all_findings')]_vars

\* a scan has returned findings of two files, a 'Circular Import' finding and
\* a dependency finding
C6_Witness ==
    /\ pc = "done"
    /\ Cardinality({f.file : f \in {g \in Range(all_findings) : g.file \in Range(py_files)}}) = 2
    /\ FindingsOfCategory("Circular Import") # <<>>
    /\ FindingsOfCategory("Vulnerable Dependency") # <<>>

-----------------------------------------------------------------------------
(* Manifest entries, as the properties of the audit speak of them.           *)

Entries == KeptLines(manifest.lines, 1)
EntryName(line) == PkgPrefix(line)
EntryHasVersion(line) == Contains(line, "==")
EntryVersion(line) == Strip(SplitSecond(line, "=="))

\* a is lexicographically less than b
LexLT(a, b) ==
    \E i \in 1..Len(b) :
        /\ i - 1 <= Len(a)
        /\ SubSeq(a, 1, i - 1) = SubSeq(b, 1, i - 1)
        /\ \/ i > Len(a)
           \/ Ord(SubSeq(a, i, i)) < Ord(SubSeq(b, i, i))

\* the specifier matches the version V
SpecifierMatches(V, specifier) ==
    IF StartsWith(specifier, "<") THEN LexLT(V, SubSeq(specifier, 2, Len(specifier)))
    ELSE IF StartsWith(specifier, ">") THEN LexLT(SubSeq(specifier, 2, Len(specifier)), V)
    ELSE V = specifier

\* the HIGH findings of the manifest about pkg whose message holds text
VulnerableFindings(text, cve) ==
    {i \in 1..Len(all_findings) :
        /\ all_findings[i].category = "Vulnerable Dependency"
        /\ all_findings[i].severity = "HIGH"
        /\ all_findings[i].file = req_path
        /\ all_findings[i].line = 0
        /\ Contains(all_findings[i].message, text)
        /\ Contains(all_findings[i].message, cve)}

ScanEnded == pc \in {"done", "raised"}

-----------------------------------------------------------------------------
(* C7: for a manifest entry name==V with name in the vulnerability table,    *)
(* exactly one HIGH 'Vulnerable Dependency' finding (manifest path, line 0,  *)
(* the rule's CVE id) is emitted if a specifier of the rule matches V, and   *)
(* none otherwise.                                                           *)
C7_VersionRangeFinding ==
    ScanEnded =>
        \A k \in 1..Len(Entries) :
            LET name == EntryName(Entries[k])
                V == EntryVersion(Entries[k])
            IN  (InVulnerableDeps(name) /\ EntryHasVersion(Entries[k]) /\ V # "") =>
                    LET rule == VulnInfo(name)
                        matches == \E r \in 1..Len(rule.vulnerable_versions) :
                                       SpecifierMatches(V, rule.vulnerable_versions[r])
                    IN  Cardinality(VulnerableFindings(" " \o name \o " " \o V \o ": ", rule.cve))
                            = IF matches THEN 1 ELSE 0

-----------------------------------------------------------------------------
(* C8: a manifest entry whose package is in the vulnerability table and      *)
(* whose line has no '==' yields one HIGH 'Vulnerable Dependency' finding.   *)
C8_NoVersionAlwaysVulnerable ==
    ScanEnded =>
        \A k \in 1..Len(Entries) :
            LET name == EntryName(Entries[k])
            IN  (InVulnerableDeps(name) /\ ~EntryHasVersion(Entries[k])) =>
                    Cardinality(VulnerableFindings("Vulnerable dependency " \o name \o " ",
                                                   VulnInfo(name).cve)) = 1

-----------------------------------------------------------------------------
(* C9: no exception raised while the rules are applied to the tree of a file *)
(* leaves the scan of that file: scan_directory goes on with the files that  *)
(* remain and returns its list.                                              *)
C9_NoRuleExceptionEscapes ==
    /\ \A i \in 1..idx :
          (IsPy(walk[i]) /\ walk[i].src.state = "ok") => ~AbortedAtFile(i)
    /\ exc # "RecursionError"

-----------------------------------------------------------------------------
(* C10: for a manifest package that does not resolve to an installed file,   *)
(* or whose file cannot be read, the audit emits no 'Dependency Hash'        *)
(* finding and raises no error: it goes on to the next package.              *)
HashFindings(pkg) ==
    {i \in 1..Len(all_findings) :
        /\ all_findings[i].category = "Dependency Hash"
        /\ Contains(all_findings[i].message, " " \o pkg \o " ")}

C10_UnresolvedPackageSkipped ==
    \A k \in 1..Len(host) :
        host[k] # "readable" =>
            /\ HashFindings(dependencies[k].pkg) = {}
            /\ ~(pc = "raised" /\ dep = k)

-----------------------------------------------------------------------------
(* run_scanner on files made of the statements the rules of PowerScanner     *)
(* look at: calls, imports and additions.                                    *)

MaxRuleStmts == 2

\* module.attr(args, keywords) as a statement
AttrCall(module, attr, args, keywords) ==
    Expr(Call(Attribute(Name(module, 0), attr, 0), args, keywords, 0))
\* q = left op right
AssignBinOp(left, op, right) == Assign(<<Name("q", 0)>>, BinOp(left, op, right, 4))

\* exec(x)
S_exec == Expr(Call(Name("exec", 0), <<Name("x", 5)>>, <<>>, 0))
\* input()
S_input == Expr(Call(Name("input", 0), <<>>, <<>>, 0))
\* compile(x)
S_compile == Expr(Call(Name("compile", 0), <<Name("x", 8)>>, <<>>, 0))
\* foo(x)
S_foo == Expr(Call(Name("foo", 0), <<Name("x", 4)>>, <<>>, 0))
\* evaluate(x)
S_evaluate == Expr(Call(Name("evaluate", 0), <<Name("x", 9)>>, <<>>, 0))
\* obj.eval(x)
S_obj_eval == AttrCall("obj", "eval", <<Name("x", 9)>>, <<>>)
\* foo(eval(x))
S_foo_eval == Expr(Call(Name("foo", 0), <<Call(Name("eval", 4), <<Name("x", 9)>>, <<>>, 4)>>, <<>>, 0))
\* eval(pw2)
S_eval_pw2 == Expr(Call(Name("eval", 0), <<Name("pw2", 5)>>, <<>>, 0))
\* os.system(x)
S_os_system == AttrCall("os", "system", <<Name("x", 10)>>, <<>>)

\* subprocess.call(c, shell=True)
S_sub_call_true ==
    AttrCall("subprocess", "call", <<Name("c", 16)>>,
             <<Keyword("shell", Constant("bool", "True", 25), 19)>>)
\* subprocess.call(c, shell=False)
S_sub_call_false ==
    AttrCall("subprocess", "call", <<Name("c", 16)>>,
             <<Keyword("shell", Constant("bool", "False", 25), 19)>>)
\* subprocess.call(c, shell=1)
S_sub_call_one ==
    AttrCall("subprocess", "call", <<Name("c", 16)>>,
             <<Keyword("shell", Constant("int", "1", 25), 19)>>)
\* subprocess.call(c, shell="True")
S_sub_call_str ==
    AttrCall("subprocess", "call", <<Name("c", 16)>>,
             <<Keyword("shell", Constant("str", "True", 25), 19)>>)
\* subprocess.call(c, shell=flag)
S_sub_call_flag ==
    AttrCall("subprocess", "call", <<Name("c", 16)>>,
             <<Keyword("shell", Name("flag", 25), 19)>>)
\* subprocess.call(c)
S_sub_call == AttrCall("subprocess", "call", <<Name("c", 16)>>, <<>>)
\* subprocess.run(c, check=True)
S_sub_run_check ==
    AttrCall("subprocess", "run", <<Name("c", 15)>>,
             <<Keyword("check", Constant("bool", "True", 24), 18)>>)
\* subprocess.Popen(c, shell=True)
S_sub_popen_true ==
    AttrCall("subprocess", "Popen", <<Name("c", 17)>>,
             <<Keyword("shell", Constant("bool", "True", 26), 20)>>)
\* subprocess.check_output(c, check=False, shell=True)
S_sub_check_output_true ==
    AttrCall("subprocess", "check_output", <<Name("c", 24)>>,
             <<Keyword("check", Constant("bool", "False", 33), 27),
               Keyword("shell", Constant("bool", "True", 46), 40)>>)
\* subprocess.getoutput(c, shell=True)
S_sub_getoutput_true ==
    AttrCall("subprocess", "getoutput", <<Name("c", 21)>>,
             <<Keyword("shell", Constant("bool", "True", 30), 24)>>)
\* sp.call(c, shell=True)
S_sp_call_true ==
    AttrCall("sp", "call", <<Name("c", 8)>>,
             <<Keyword("shell", Constant("bool", "True", 17), 11)>>)

\* yaml.load(f)
S_yaml_load == AttrCall("yaml", "load", <<Name("f", 10)>>, <<>>)
\* yaml.load(f, Loader=SafeLoader)
S_yaml_load_name ==
    AttrCall("yaml", "load", <<Name("f", 10)>>,
             <<Keyword("Loader", Name("SafeLoader", 20), 13)>>)
\* yaml.load(f, Loader=yaml.SafeLoader)
S_yaml_load_attr ==
    AttrCall("yaml", "load", <<Name("f", 10)>>,
             <<Keyword("Loader", Attribute(Name("yaml", 20), "SafeLoader", 20), 13)>>)
\* yaml.load(f, Loader=yaml.Loader)
S_yaml_load_unsafe ==
    AttrCall("yaml", "load", <<Name("f", 10)>>,
             <<Keyword("Loader", Attribute(Name("yaml", 20), "Loader", 20), 13)>>)
\* yaml.safe_load(f)
S_yaml_safe_load == AttrCall("yaml", "safe_load", <<Name("f", 15)>>, <<>>)

\* hashlib.md5(d)
S_md5 == AttrCall("hashlib", "md5", <<Name("d", 12)>>, <<>>)
\* hashlib.sha1(d)
S_sha1 == AttrCall("hashlib", "sha1", <<Name("d", 13)>>, <<>>)
\* hashlib.sha256(d)
S_sha256 == AttrCall("hashlib", "sha256", <<Name("d", 15)>>, <<>>)
\* hashlib.sha256(password)
S_sha256_password == AttrCall("hashlib", "sha256", <<Name("password", 15)>>, <<>>)
\* hashlib.new("md5")
S_hashlib_new == AttrCall("hashlib", "new", <<Constant("str", "md5", 12)>>, <<>>)
\* h.md5(d)
S_h_md5 == AttrCall("h", "md5", <<Name("d", 6)>>, <<>>)
\* md5(d)
S_md5_direct == Expr(Call(Name("md5", 0), <<Name("d", 4)>>, <<>>, 0))

\* import pickle
S_import_pickle == Import(<<Alias("pickle", 7)>>)
\* import cPickle
S_import_cPickle == Import(<<Alias("cPickle", 7)>>)
\* import pickle.x
S_import_pickle_x == Import(<<Alias("pickle.x", 7)>>)
\* import os, yaml
S_import_os_yaml == Import(<<Alias("os", 7), Alias("yaml", 11)>>)
\* import xml.etree.ElementTree
S_import_xml == Import(<<Alias("xml.etree.ElementTree", 7)>>)
\* import json
S_import_json == Import(<<Alias("json", 7)>>)
\* from pickle import loads
S_from_pickle == ImportFrom("pickle", "str", 0, <<Alias("loads", 19)>>)
\* from xml.etree.ElementTree import parse
S_from_xml == ImportFrom("xml.etree.ElementTree", "str", 0, <<Alias("parse", 34)>>)
\* from os import path
S_from_os == ImportFrom("os", "str", 0, <<Alias("path", 15)>>)
\* from . import pickle
S_from_dot == ImportFrom("", "None", 1, <<Alias("pickle", 14)>>)

\* q = "SELECT * FROM t WHERE id=" + x
S_sql_upper == AssignBinOp(Constant("str", "SELECT * FROM t WHERE id=", 4), "Add", Name("x", 34))
\* q = "select * from t where id=" + x
S_sql_lower == AssignBinOp(Constant("str", "select * from t where id=", 4), "Add", Name("x", 34))
\* q = "Delete from t where id=" + x
S_sql_mixed == AssignBinOp(Constant("str", "Delete from t where id=", 4), "Add", Name("x", 32))
\* q = "SELECT " + "a"
S_sql_literal == AssignBinOp(Constant("str", "SELECT ", 4), "Add", Constant("str", "a", 16))
\* q = "hello " + x
S_sql_hello == AssignBinOp(Constant("str", "hello ", 4), "Add", Name("x", 15))
\* q = x + "SELECT "
S_sql_right == AssignBinOp(Name("x", 4), "Add", Constant("str", "SELECT ", 8))
\* q = b"SELECT " + x
S_sql_bytes == AssignBinOp(Constant("bytes", "SELECT ", 4), "Add", Name("x", 17))
\* q = "UPDATE %s" % x
S_sql_mod == AssignBinOp(Constant("str", "UPDATE %s", 4), "Mod", Name("x", 18))
\* q = "INSERT " + x + y
S_sql_nested ==
    AssignBinOp(BinOp(Constant("str", "INSERT ", 4), "Add", Name("x", 16), 4), "Add", Name("y", 20))

\* direct calls and calls of hashlib
CallPool ==
    {S_eval, S_exec, S_input, S_compile, S_foo, S_evaluate, S_obj_eval, S_foo_eval,
     S_os_system, S_pw2_pw2, S_eval_pw2, S_password_lit,
     S_md5, S_sha1, S_sha256, S_sha256_password, S_hashlib_new, S_h_md5, S_md5_direct}

\* calls with keyword arguments
KeywordPool ==
    {S_sub_call_true, S_sub_call_false, S_sub_call_one, S_sub_call_str, S_sub_call_flag,
     S_sub_call, S_sub_run_check, S_sub_popen_true, S_sub_check_output_true,
     S_sub_getoutput_true, S_sp_call_true,
     S_yaml_load, S_yaml_load_name, S_yaml_load_attr, S_yaml_load_unsafe, S_yaml_safe_load,
     S_foo}

ImportPool ==
    {S_import_pickle, S_import_cPickle, S_import_pickle_x, S_import_os_yaml, S_import_xml,
     S_import_json, S_from_pickle, S_from_xml, S_from_os, S_from_dot, S_import_os, S_eval}

SqlPool ==
    {S_sql_upper, S_sql_lower, S_sql_mixed, S_sql_literal, S_sql_hello, S_sql_right,
     S_sql_bytes, S_sql_mod, S_sql_nested, S_foo}

\* run_scanner is called on a file of up to MaxRuleStmts statements of pool
InitRules(pool) ==
    /\ \E body \in SeqsUpTo(pool, MaxRuleStmts) :
          tree = [path |-> "proj/m.py", src |-> Src(body)]
    /\ scanner = NoScanner
    /\ stmt = 0
    /\ fpc = "start"
    /\ InitDirIdle
    /\ InitExtIdle

InitCalls == InitRules(CallPool)
SpecCalls == InitCalls /\ [][NextFile]_vars

InitKeywords == InitRules(KeywordPool)
SpecKeywords == InitKeywords /\ [][NextFile]_vars

InitImports == InitRules(ImportPool)
SpecImports == InitImports /\ [][NextFile]_vars

InitSql == InitRules(SqlPool)
SpecSql == InitSql /\ [][NextFile]_vars

-----------------------------------------------------------------------------
(* The nodes of a file and the findings at their positions.                  *)

\* node and the nodes below it, each with its line in the file
RECURSIVE NodesOf(_, _)
NodesOf(node, base) ==
    {[node |-> node, line |-> base + node.dl]}
        \cup UNION {NodesOf(node.kids[i], base) : i \in 1..Len(node.kids)}

\* the nodes of the statements the scanner has visited
VisitedNodes ==
    UNION {NodesOf(tree.src.body[k], LineOf(tree.src.body, k)) : k \in 1..stmt}

VisitedCalls == {n \in VisitedNodes : n.node.kind = "Call"}

\* the findings the scanner holds of a category
StoredOfCategory(category) ==
    {i \in 1..Len(scanner.findings) : scanner.findings[i].category = category}

\* those at the line and column of the node n
StoredAt(n, category) ==
    {i \in StoredOfCategory(category) :
        /\ scanner.findings[i].file = tree.path
        /\ scanner.findings[i].line = n.line
        /\ scanner.findings[i].col = n.node.col}

\* the call is name(...)
IsDirectCall(n) == n.node.kind = "Call" /\ CallFunc(n.node).kind = "Name"
\* the call is module.attr(...)
IsQualifiedCall(n, module) ==
    /\ n.node.kind = "Call"
    /\ CallFunc(n.node).kind = "Attribute"
    /\ CallFunc(n.node).kids[1].kind = "Name"
    /\ CallFunc(n.node).kids[1].s = module

-----------------------------------------------------------------------------
(* C11: a direct call by name to eval, exec, compile or input yields exactly *)
(* one HIGH 'Dangerous Sink' finding at the line and column of the call      *)
(* node; a direct call to any other name yields no 'Dangerous Sink' finding. *)
DirectSinkCalls ==
    {n \in VisitedCalls :
        IsDirectCall(n) /\ CallFunc(n.node).s \in {"eval", "exec", "compile", "input"}}

C11_DirectSinkFinding ==
    /\ \A n \in VisitedCalls :
          IsDirectCall(n) =>
              IF n \in DirectSinkCalls
              THEN /\ Cardinality(StoredAt(n, "Dangerous Sink")) = 1
                   /\ \A i \in StoredAt(n, "Dangerous Sink") :
                          scanner.findings[i].severity = "HIGH"
              ELSE StoredAt(n, "Dangerous Sink") = {}
    /\ fpc = "returned" =>
          Cardinality(StoredOfCategory("Dangerous Sink")) = Cardinality(DirectSinkCalls)

\* a file was scanned whose second line calls eval inside a call of another name
C11_Witness ==
    /\ fpc = "returned"
    /\ \E n, m \in VisitedCalls :
          /\ n \in DirectSinkCalls /\ n.line = 2 /\ n.node.col > 0
          /\ IsDirectCall(m) /\ m \notin DirectSinkCalls

-----------------------------------------------------------------------------
(* C12: a call subprocess.{Popen,call,check_call,check_output,run} yields    *)
(* exactly one CRITICAL 'Command Injection' finding when it has a keyword    *)
(* argument shell whose value is the literal True, and no CRITICAL finding   *)
(* otherwise.                                                                *)
SubprocessCalls ==
    {n \in VisitedCalls :
        /\ IsQualifiedCall(n, "subprocess")
        /\ CallFunc(n.node).s \in {"Popen", "call", "check_call", "check_output", "run"}}

\* the call has the keyword argument shell=True
HasShellTrue(n) ==
    \E k \in 1..Len(CallKeywords(n.node)) :
        LET kw == CallKeywords(n.node)[k]
        IN  kw.s = "shell" /\ kw.kids[1] = Constant("bool", "True", kw.kids[1].col)

StoredCritical == {i \in 1..Len(scanner.findings) : scanner.findings[i].severity = "CRITICAL"}

StoredCriticalAt(n) ==
    {i \in StoredCritical :
        /\ scanner.findings[i].file = tree.path
        /\ scanner.findings[i].line = n.line
        /\ scanner.findings[i].col = n.node.col}

C12_ShellTrueFinding ==
    /\ \A n \in SubprocessCalls :
          IF HasShellTrue(n)
          THEN /\ Cardinality(StoredCriticalAt(n)) = 1
               /\ StoredCriticalAt(n) \subseteq StoredOfCategory("Command Injection")
          ELSE StoredCriticalAt(n) = {}
    /\ fpc = "returned" =>
          Cardinality(StoredCritical) = Cardinality({n \in SubprocessCalls : HasShellTrue(n)})

\* a file was scanned that calls subprocess with shell=True on one line and
\* with another value of shell on the other
C12_Witness ==
    /\ fpc = "returned"
    /\ \E n, m \in SubprocessCalls :
          /\ HasShellTrue(n)
          /\ ~HasShellTrue(m)
          /\ \E k \in 1..Len(CallKeywords(m.node)) : CallKeywords(m.node)[k].s = "shell"

-----------------------------------------------------------------------------
(* PowerScanner.report called with severities of any kind.                   *)

MaxReports == 2

\* the severity values given to report: those of self.severities and others
SeverityValues == {"INFO", "LOW", "MEDIUM", "HIGH", "CRITICAL", "high", "WARNING", ""}

\* report(node, severity, category, message), node being on line base + node.dl
ReportCalls ==
    {[node |-> Name("x", 4), base |-> 1, severity |-> v,
      category |-> "Dangerous Sink", message |-> "Execution of interpreted code via 'x'."] :
        v \in SeverityValues}
    \cup
    {[node |-> PassStmt(1, 8), base |-> 3, severity |-> v,
      category |-> "Custom Rule", message |-> ""] : v \in SeverityValues}

InitReport ==
    /\ report_calls \in {[made |-> <<>>, todo |-> t] : t \in SeqsUpTo(ReportCalls, MaxReports)}
    /\ scanner = NewScanner("proj/m.py")
    /\ tree = [path |-> "proj/m.py", src |-> Src(<<>>)]
    /\ stmt = 0
    /\ fpc = "report"
    /\ results = <<>>
    /\ hc = HasCycleIdle
    /\ InitMsdIdle
    /\ InitDirIdle

\* scanner.report(node, severity, category, message)
Report ==
    /\ fpc = "report"
    /\ report_calls.todo # <<>>
    /\ LET c == Head(report_calls.todo)
       IN  /\ scanner' = report(scanner, c.node, c.base, c.severity, c.category, c.message)
           /\ report_calls' = [made |-> Append(report_calls.made, c),
                               todo |-> Tail(report_calls.todo)]
    /\ UNCHANGED <<tree, stmt, fpc, results, msdVars, hc>>
    /\ UNCHANGED dirVars

NextReport == Report

SpecReport == InitReport /\ [][NextReport]_vars

-----------------------------------------------------------------------------
(* C13: every finding stored by the scanner has a severity in {INFO, LOW,    *)
(* MEDIUM, HIGH, CRITICAL}: a report made with any other severity value is   *)
(* stored with severity MEDIUM and with its file, line, column, category and *)
(* message unchanged.                                                        *)
C13_SeverityCoerced ==
    /\ Len(scanner.findings) = Len(report_calls.made)
    /\ \A i \in 1..Len(report_calls.made) :
          LET c == report_calls.made[i]
              f == scanner.findings[i]
          IN  /\ f.severity \in {"INFO", "LOW", "MEDIUM", "HIGH", "CRITICAL"}
              /\ c.severity \notin {"INFO", "LOW", "MEDIUM", "HIGH", "CRITICAL"} =>
                    /\ f.severity = "MEDIUM"
                    /\ f.file = scanner.filename
                    /\ f.line = c.base + c.node.dl
                    /\ f.col = c.node.col
                    /\ f.category = c.category
                    /\ f.message = c.message

\* two reports were made, the second with a severity that is not one of the five
C13_Witness ==
    /\ Len(report_calls.made) = 2
    /\ report_calls.made[2].severity = "WARNING"
    /\ scanner.findings[2].line = 4

-----------------------------------------------------------------------------
(* scan_directory called more than once on the same directory.               *)

MaxCalls == 2

\* files that share names: one assigns them, the other passes them to calls
ScopePool ==
    {WalkEntry("proj", "s.py", Src(<<S_password_lit, S_pw2_password>>)),
     WalkEntry("proj", "t.py", Src(<<S_send_password, S_send_pw2>>)),
     WalkEntry("proj", "d.py", Src(<<S_pw2_pw2, S_send_pw2>>)),
     WalkEntry("proj/sub", "b.py", Src(<<S_from_a, S_password_lit, S_send_password>>)),
     WalkEntry("proj/sub", "t.py", Src(<<S_pw3_pw2, S_send_pw3>>))}

InitScans ==
    /\ walk \in {w \in SeqsUpTo(ScopePool, MaxFiles) : IsWalk(w)}
    /\ manifest \in {NoManifest, Manifest(<<"urllib3==1.0.0\n">>)}
    /\ InitScanLocals
    /\ InitFileIdle
    /\ InitExtIdle

\* lines 216-226: scan_directory is called again on the same directory, after
\* it has returned or raised; its locals are new
CallAgain ==
    /\ \/ /\ pc = "done"
          /\ Len(results) < MaxCalls
          /\ results' = results
       \/ /\ pc = "raised"
          /\ Len(results) + 1 < MaxCalls
          /\ results' = Append(results, [findings |-> <<>>, host |-> host, exc |-> exc])
    /\ pc' = "walk"
    /\ idx' = 0
    /\ py_files' = <<>>
    /\ all_scanners' = <<>>
    /\ all_findings' = <<>>
    /\ graph' = <<>>
    /\ dependencies' = <<>>
    /\ dep' = 0
    /\ host' = <<>>
    /\ cyclic' = FALSE
    /\ exc' = "None"
    /\ UNCHANGED <<walk, manifest, printed, report_calls, msdVars, hc>>
    /\ UNCHANGED fileVars

NextScans == Next \/ CallAgain

SpecScans == InitScans /\ [][NextScans]_vars

-----------------------------------------------------------------------------
(* C14: the alias relation and the sensitive-name set are scoped to one      *)
(* file's scan: a name marked sensitive or aliased in one file never causes  *)
(* a finding in another file of the same scan, and nothing left by one call  *)
(* of scan_directory changes the result of a later call on the same input.   *)

\* finding f of the file of walk entry e is about a call of that file which
\* passes a name that an assignment of the same file marks or links
ExposureFromOwnFile(f, e) ==
    /\ PathOf(e) = f.file
    /\ e.src.state = "ok"
    /\ \E k \in 1..Len(e.src.body) :
          /\ IsCallStmt(e.src.body[k])
          /\ LineOf(e.src.body, k) = f.line
          /\ \E a \in 1..e.src.body[k].kids[1].n :
                LET arg == CallArgs(e.src.body[k].kids[1])[a]
                IN  arg.kind = "Name" /\ TaintedAt(e.src.body, k, arg.s)

C14_ScopedToFile ==
    /\ \A i \in 1..Len(all_findings) :
          all_findings[i].category = "Sensitive Data Exposure" =>
              \E j \in 1..idx : ExposureFromOwnFile(all_findings[i], walk[j])
    /\ \A a, b \in 1..Len(results) :
          results[a].host = results[b].host =>
              /\ results[a].findings = results[b].findings
              /\ results[a].exc = results[b].exc

\* scan_directory has returned twice for a directory where s.py assigns
\* password and t.py, scanned after it, passes password to a call
C14_Witness ==
    /\ Len(results) = 2
    /\ Len(walk) = 2
    /\ walk[1].file = "s.py"
    /\ walk[2].file = "t.py" /\ walk[2].root = "proj"
    /\ results[2].findings # <<>>
    /\ results[2].exc = "None"

-----------------------------------------------------------------------------
(* C15: an import or from-import statement whose module is in the            *)
(* unsafe-module set (pickle, dill, marshal, shelve, yaml,                   *)
(* xml.etree.ElementTree, imp, cgi, ftplib, telnetlib) yields a MEDIUM       *)
(* 'Insecure Import' finding, and an import of a module outside that set     *)
(* yields none.                                                              *)
VisitedImports == {n \in VisitedNodes : n.node.kind \in {"Import", "ImportFrom"}}

\* the modules the statement imports, or imports from
ImportedModules(n) ==
    IF n.node.kind = "Import" THEN {n.node.kids[i].s : i \in 1..Len(n.node.kids)}
    ELSE IF n.node.t # "None" THEN {n.node.s}
    ELSE {}

TopLevelName(module) == SplitFirst(module, ".")

C15_InsecureImportFinding ==
    \A n \in VisitedImports :
        /\ (\E m \in ImportedModules(n) : m \in unsafe_modules) =>
              \E i \in StoredAt(n, "Insecure Import") : scanner.findings[i].severity = "MEDIUM"
        /\ (\A m \in ImportedModules(n) :
                m \notin unsafe_modules /\ TopLevelName(m) \notin unsafe_modules) =>
              StoredAt(n, "Insecure Import") = {}

-----------------------------------------------------------------------------
(* C16: a binary addition yields one MEDIUM 'Potential SQL Injection'        *)
(* finding exactly when its left operand is a string literal containing an   *)
(* uppercase SQL keyword (SELECT, INSERT, UPDATE or DELETE) and its right     *)
(* operand is not a literal; in every other case it yields none.             *)
VisitedAdditions == {n \in VisitedNodes : n.node.kind = "BinOp" /\ n.node.t = "Add"}

SqlKeywords == {"SELECT", "INSERT", "UPDATE", "DELETE"}

\* s contains kw, letter case ignored
ContainsIgnoreCase(s, kw) ==
    \E i \in 1..(Len(s) - Len(kw) + 1) :
        \A j \in 1..Len(kw) : LowerChar(SubSeq(s, i + j - 1, i + j - 1)) = LowerChar(SubSeq(kw, j, j))

IsStrLiteral(node) == node.kind = "Constant" /\ node.t = "str"

\* the additions at the position of n that are to yield a finding, has(s, kw)
\* being the test of the literal
AdditionsToReport(n, has(_, _)) ==
    {m \in VisitedAdditions :
        /\ m.line = n.line /\ m.node.col = n.node.col
        /\ IsStrLiteral(m.node.kids[1])
        /\ \E kw \in SqlKeywords : has(m.node.kids[1].s, kw)
        /\ m.node.kids[2].kind # "Constant"}

\* the claim as it is stated: the keyword is in the literal in upper case
C16_SqlFindingUppercase ==
    \A n \in VisitedAdditions :
        /\ Cardinality(StoredAt(n, "Potential SQL Injection"))
              = Cardinality(AdditionsToReport(n, Contains))
        /\ \A i \in StoredAt(n, "Potential SQL Injection") : scanner.findings[i].severity = "MEDIUM"

\* C16 as amended: an addition of a visited statement yields one MEDIUM
\* 'Potential SQL Injection' finding exactly when its left operand is a string
\* literal containing SELECT, INSERT, UPDATE or DELETE in any letter case and
\* its right operand is not a literal; in every other case it yields none.
C16_SqlFindingAnyCase ==
    \A n \in VisitedAdditions :
        /\ Cardinality(StoredAt(n, "Potential SQL Injection"))
              = Cardinality(AdditionsToReport(n, ContainsIgnoreCase))
        /\ \A i \in StoredAt(n, "Potential SQL Injection") : scanner.findings[i].severity = "MEDIUM"

\* a file was scanned whose second line adds a name to a literal with a
\* keyword in lower case, and the addition has its finding
C16_Witness ==
    /\ fpc = "returned"
    /\ \E n \in VisitedAdditions :
          /\ n.line = 2
          /\ AdditionsToReport(n, Contains) = {}
          /\ AdditionsToReport(n, ContainsIgnoreCase) # {}
          /\ StoredAt(n, "Potential SQL Injection") # {}

-----------------------------------------------------------------------------
(* C17: a call yaml.load(...) yields one HIGH 'Insecure Deserialization'     *)
(* finding unless it passes a keyword argument Loader that designates        *)
(* SafeLoader (Loader=SafeLoader or Loader=yaml.SafeLoader), in which case   *)
(* it yields no such finding.                                                *)
YamlLoadCalls ==
    {n \in VisitedCalls : IsQualifiedCall(n, "yaml") /\ CallFunc(n.node).s = "load"}

\* the expression is SafeLoader or <something>.SafeLoader
DesignatesSafeLoader(value) ==
    \/ value.kind = "Name" /\ value.s = "SafeLoader"
    \/ value.kind = "Attribute" /\ value.s = "SafeLoader"

HasSafeLoader(n) ==
    \E k \in 1..Len(CallKeywords(n.node)) :
        LET kw == CallKeywords(n.node)[k]
        IN  kw.s = "Loader" /\ DesignatesSafeLoader(kw.kids[1])

C17_YamlLoadFinding ==
    \A n \in YamlLoadCalls :
        LET stored == {i \in StoredAt(n, "Insecure Deserialization") :
                          scanner.findings[i].severity = "HIGH"}
        IN  Cardinality(stored) = IF HasSafeLoader(n) THEN 0 ELSE 1

-----------------------------------------------------------------------------
(* C18: a call hashlib.md5(...) or hashlib.sha1(...) yields exactly one      *)
(* MEDIUM 'Weak Cryptography' finding; a call to any other hashlib function  *)
(* (e.g. hashlib.sha256) yields no finding: none for its callee, the         *)
(* 'Sensitive Data Exposure' findings being those of its arguments.          *)
HashlibCalls == {n \in VisitedCalls : IsQualifiedCall(n, "hashlib")}

WeakHashCalls == {n \in HashlibCalls : CallFunc(n.node).s \in {"md5", "sha1"}}

\* the findings at the position of n that are not about an argument of the call
StoredForCallee(n) ==
    {i \in 1..Len(scanner.findings) :
        /\ scanner.findings[i].line = n.line
        /\ scanner.findings[i].col = n.node.col
        /\ scanner.findings[i].category # "Sensitive Data Exposure"}

-----------------------------------------------------------------------------
(* C20: whenever get_all_aliases(name) returns, its result is exactly {name} *)
(* together with every name reachable from name by one or more alias edges   *)
(* target -> source, and no other name; an edge t -> s is recorded for each  *)
(* assignment t = s between plain names.                                     *)

\* the edges of the name-to-name assignments the scanner has visited
VisitedAliasEdges ==
    {<<tree.src.body[k].kids[1].s, tree.src.body[k].kids[2].s>> :
        k \in {j \in 1..stmt : IsNameAssign(tree.src.body[j])}}

\* the names of the visited statements
VisitedNames == {n.node.s : n \in {m \in VisitedNodes : m.node.kind = "Name"}}

C20_AliasClosureExact ==
    /\ scanner.aliases = VisitedAliasEdges
    /\ \A name \in VisitedNames :
          LET all_aliases == get_all_aliases(scanner, name, 1)
          IN  ~all_aliases.raised =>
                  all_aliases.val = LinkedNames(tree.src.body, stmt + 1, {name})

\* pw3 = pw2 and pw2 = password were visited, then a call with the argument
\* pw3, whose lookup returned the three names
C20_Witness ==
    /\ fpc = "returned"
    /\ stmt = 3
    /\ tree.src.body[3] = S_send_pw3
    /\ LET all_aliases == get_all_aliases(scanner, "pw3", 1)
       IN  ~all_aliases.raised /\ all_aliases.val = {"pw3", "pw2", "password"}

-----------------------------------------------------------------------------
(* src/data_access.py: class CallGraphVisitor, has_cycle and the part of     *)
(* memory_space_data that handles one file.                                  *)

MaxDefs == 2

RECURSIVE CallGraphVisitor_visit(_, _)
RECURSIVE CallGraphVisitor_visit_all(_, _, _)

\* generic_visit of the CallGraphVisitor
CallGraphVisitor_generic_visit(v, node) == CallGraphVisitor_visit_all(v, node.kids, 1)

\* CallGraphVisitor.visit_FunctionDef
CallGraphVisitor_visit_FunctionDef(v, node) ==
    LET v1 == [v EXCEPT !.current_func = node.s, !.functions = @ \cup {node.s}]
        v2 == CallGraphVisitor_generic_visit(v1, node)
    IN  [v2 EXCEPT !.current_func = "None"]

\* CallGraphVisitor.visit_Call
CallGraphVisitor_visit_Call(v, node) ==
    LET func == CallFunc(node)
        v1 == IF /\ v.current_func # "None"
                 /\ func.kind = "Name"
                 /\ func.s \in v.functions
              THEN [v EXCEPT !.calls = GraphAppend(@, v.current_func, func.s)]
              ELSE v
    IN  CallGraphVisitor_generic_visit(v1, node)

CallGraphVisitor_visit(v, node) ==
    CASE node.kind = "FunctionDef" -> CallGraphVisitor_visit_FunctionDef(v, node)
      [] node.kind = "Call" -> CallGraphVisitor_visit_Call(v, node)
      [] OTHER -> CallGraphVisitor_generic_visit(v, node)

CallGraphVisitor_visit_all(v, nodes, i) ==
    IF i > Len(nodes) THEN v
    ELSE CallGraphVisitor_visit_all(CallGraphVisitor_visit(v, nodes[i]), nodes, i + 1)

\* node in graph, for a dict
DictHas(g, node) == \E i \in 1..Len(g) : g[i].key = node

\* dfs(node) of has_cycle in data_access.py.  The graph it is given is a plain
\* dict, so graph[node] raises KeyError for a node that is no key; the result
\* is [found, visited, rec_stack, raised, key].
RECURSIVE dict_dfs(_, _, _)
RECURSIVE dict_dfsLoop(_, _, _, _)
dict_dfs(g, node, st) ==
    LET s1 == [st EXCEPT !.visited = @ \cup {node}, !.rec_stack = @ \cup {node}]
    IN  IF ~DictHas(g, node)
        THEN [s1 EXCEPT !.raised = TRUE, !.key = node]
        ELSE dict_dfsLoop(g, node, 1, s1)

dict_dfsLoop(g, node, i, st) ==
    IF i > Len(GraphGet(g, node))
    THEN [st EXCEPT !.rec_stack = @ \ {node}]
    ELSE LET neighbor == GraphGet(g, node)[i]
         IN  IF neighbor \notin st.visited
             THEN LET r == dict_dfs(g, neighbor, st)
                  IN  IF r.found \/ r.raised THEN r ELSE dict_dfsLoop(g, node, i + 1, r)
             ELSE IF neighbor \in st.rec_stack
                  THEN [st EXCEPT !.found = TRUE]
                  ELSE dict_dfsLoop(g, node, i + 1, st)

\* the loop of has_cycle over list(graph.keys()), from the i-th key on
RECURSIVE dict_has_cycle_loop(_, _, _)
dict_has_cycle_loop(g, i, st) ==
    IF i > Len(g) THEN st
    ELSE IF g[i].key \notin st.visited
         THEN LET r == dict_dfs(g, g[i].key, st)
              IN  IF r.found \/ r.raised THEN r ELSE dict_has_cycle_loop(g, i + 1, r)
         ELSE dict_has_cycle_loop(g, i + 1, st)

\* has_cycle(graph) of data_access.py on a dict: [raised, key, val]
dict_has_cycle(g) ==
    LET r == dict_has_cycle_loop(g, 1, [found |-> FALSE, visited |-> {}, rec_stack |-> {},
                                        raised |-> FALSE, key |-> ""])
    IN  [raised |-> r.raised, key |-> r.key, val |-> r.found]

\* Function definitions and statements of the files given to memory_space_data
D_f_pass == FunctionDef("f", <<PassStmt(1, 4)>>)
D_g_pass == FunctionDef("g", <<PassStmt(1, 4)>>)
D_f_f == FunctionDef("f", <<Expr(Call(Name("f", 4), <<>>, <<>>, 4))>>)
D_g_g == FunctionDef("g", <<Expr(Call(Name("g", 4), <<>>, <<>>, 4))>>)
D_f_g == FunctionDef("f", <<Expr(Call(Name("g", 4), <<>>, <<>>, 4))>>)
D_g_f == FunctionDef("g", <<Expr(Call(Name("f", 4), <<>>, <<>>, 4))>>)
\* def f(): f(); g()
D_f_fg ==
    FunctionDef("f", <<Expr(Call(Name("f", 4), <<>>, <<>>, 4)),
                       Expr(Call(Name("g", 4), <<>>, <<>>, 4))>>)
\* def f(): g(); f()
D_f_gf ==
    FunctionDef("f", <<Expr(Call(Name("g", 4), <<>>, <<>>, 4)),
                       Expr(Call(Name("f", 4), <<>>, <<>>, 4))>>)
\* def g(): self.g()
D_g_self_g ==
    FunctionDef("g", <<Expr(Call(Attribute(Name("self", 4), "g", 4), <<>>, <<>>, 4))>>)
\* def f(): print(f())
D_f_print_f ==
    FunctionDef("f", <<Expr(Call(Name("print", 4),
                                 <<Call(Name("f", 10), <<>>, <<>>, 10)>>, <<>>, 4))>>)
\* f() at module level
S_call_f == Expr(Call(Name("f", 0), <<>>, <<>>, 0))

DefPool ==
    {D_f_pass, D_g_pass, D_f_f, D_g_g, D_f_g, D_g_f, D_f_fg, D_f_gf, D_g_self_g,
     D_f_print_f, S_call_f}

InitCallGraph ==
    /\ \E body \in SeqsUpTo(DefPool, MaxDefs), state \in {"ok", "syntax_error"} :
          /\ state # "ok" => body = <<>>
          /\ tree = [path |-> "proj/m.py",
                     src |-> IF state = "ok" THEN Src(body) ELSE SyntaxErrorSrc]
    /\ scanner = NoScanner
    /\ stmt = 0
    /\ fpc = "idle"
    /\ report_calls = [made |-> <<>>, todo |-> <<>>]
    /\ results = <<>>
    /\ hc = HasCycleIdle
    /\ visitor = NewCallGraphVisitor
    /\ func_idx = 0
    /\ recursive_funcs = <<>>
    /\ all_data = NoEntry
    /\ mpc = "start"
    /\ InitDirIdle

\* the entry of lines 158-162; error = str(e)
MsdErrorEntry(error) ==
    [kind |-> "error", call_graph |-> <<>>, recursive_functions |-> <<>>, error |-> error]

\* lines 135-143: the file is read and parsed, the visitor walks the tree.  A
\* SyntaxError of ast.parse is caught at line 157.
BuildCallGraph ==
    /\ mpc = "start"
    /\ IF tree.src.state = "syntax_error"
       THEN /\ all_data' = MsdErrorEntry(tree.src.err)
            /\ mpc' = "done"
            /\ UNCHANGED visitor
       ELSE /\ visitor' = CallGraphVisitor_visit_all(NewCallGraphVisitor, tree.src.body, 1)
            /\ mpc' = "checking"
            /\ UNCHANGED all_data
    /\ func_idx' = 0
    /\ recursive_funcs' = <<>>
    /\ UNCHANGED <<report_calls, results, hc>>
    /\ UNCHANGED dirVars
    /\ UNCHANGED fileVars

\* lines 144-146: one round of "for func in graph".  A KeyError raised by
\* has_cycle is caught at line 157; str(KeyError('g')) is "'g'".
CheckFunc ==
    /\ mpc = "checking"
    /\ func_idx < Len(visitor.calls)
    /\ LET func == visitor.calls[func_idx + 1].key
           r == dict_has_cycle(<<[key |-> func, edges |-> GraphGet(visitor.calls, func)]>>)
       IN  IF r.raised
           THEN /\ all_data' = MsdErrorEntry("'" \o r.key \o "'")
                /\ mpc' = "done"
                /\ UNCHANGED <<func_idx, recursive_funcs>>
           ELSE /\ recursive_funcs' = IF r.val THEN Append(recursive_funcs, func)
                                       ELSE recursive_funcs
                /\ func_idx' = func_idx + 1
                /\ UNCHANGED <<all_data, mpc>>
    /\ UNCHANGED <<report_calls, results, visitor, hc>>
    /\ UNCHANGED dirVars
    /\ UNCHANGED fileVars

\* lines 148-156: the entry of the file
StoreEntry ==
    /\ mpc = "checking"
    /\ func_idx = Len(visitor.calls)
    /\ all_data' = [kind |-> "entry", call_graph |-> visitor.calls,
                    recursive_functions |-> recursive_funcs, error |-> ""]
    /\ mpc' = "done"
    /\ UNCHANGED <<report_calls, results, visitor, func_idx, recursive_funcs, hc>>
    /\ UNCHANGED dirVars
    /\ UNCHANGED fileVars

NextCallGraph == BuildCallGraph \/ CheckFunc \/ StoreEntry

SpecCallGraph == InitCallGraph /\ [][NextCallGraph]_vars

-----------------------------------------------------------------------------
(* C19: for each function f of a file's call graph, the check                *)
(* has_cycle({f: direct calls of f}) completes with a boolean and reports f  *)
(* as recursive if and only if f calls itself directly; a function that      *)
(* calls only other functions is reported as not recursive, and the file     *)
(* still gets a call-graph entry.                                            *)

\* f calls itself directly in the call graph g
CallsItself(g, f) == f \in Range(GraphGet(g, f))

C19_DirectRecursionOnly ==
    (mpc = "done" /\ tree.src.state = "ok") =>
        /\ all_data.kind = "entry"
        /\ all_data.call_graph = visitor.calls
        /\ \A i \in 1..Len(visitor.calls) :
              LET f == visitor.calls[i].key
              IN  f \in Range(all_data.recursive_functions) <=> CallsItself(visitor.calls, f)

-----------------------------------------------------------------------------
(* C21: every edge target of the import graph is the name of a .py module    *)
(* found under the scanned root (the file name without its extension, never  *)
(* __init__); an import of an external or library module adds no edge, so it *)
(* cannot contribute to a 'Circular Import' finding.                         *)

\* the names of the .py files of the directory, without extension
LocalModules ==
    {SubSeq(walk[i].file, 1, Len(walk[i].file) - 3) :
        i \in {j \in 1..Len(walk) : EndsWith(walk[j].file, ".py")}} \ {"__init__"}

\* the targets of the edges of the import graph
EdgeTargets == UNION {Range(graph[i].edges) : i \in 1..Len(graph)}

\* the number of edges of the import graph
RECURSIVE EdgeCount(_, _)
EdgeCount(g, i) == IF i > Len(g) THEN 0 ELSE Len(g[i].edges) + EdgeCount(g, i + 1)

\* the number of imports of local modules recorded by the scanners, from the i-th on
RECURSIVE LocalImportCount(_, _)
LocalImportCount(scanners, i) ==
    IF i > Len(scanners) THEN 0
    ELSE Cardinality({k \in 1..Len(scanners[i].imported_modules) :
                         scanners[i].imported_modules[k] \in LocalModules})
         + LocalImportCount(scanners, i + 1)

C21_EdgesAreLocalModules ==
    /\ EdgeTargets \subseteq LocalModules
    /\ "__init__" \notin EdgeTargets
    /\ pc \in {"sca", "audit", "done"} =>
          /\ EdgeCount(graph, 1) = LocalImportCount(all_scanners, 1)
          /\ FindingsOfCategory("Circular Import") # <<>> =>
                \E n \in LocalModules : OnCycle(graph, n)

\* a scan has returned in which a file imports os and a module of the
\* directory: the graph has an edge, and none to os
C21_Witness ==
    /\ pc = "done"
    /\ \E i \in 1..Len(all_scanners) :
          /\ "os" \in Range(all_scanners[i].imported_modules)
          /\ \E m \in Range(all_scanners[i].imported_modules) : m \in EdgeTargets
    /\ "os" \notin EdgeTargets

-----------------------------------------------------------------------------
(* Statements in which a node that matches a rule lies below another one.    *)

\* the node moved d lines down
RECURSIVE Shift(_, _)
Shift(node, d) ==
    [node EXCEPT !.dl = @ + d, !.kids = [i \in 1..Len(node.kids) |-> Shift(node.kids[i], d)]]

\* eval(eval(x))
N_eval_eval ==
    Expr(Call(Name("eval", 0), <<Call(Name("eval", 5), <<Name("x", 10)>>, <<>>, 5)>>, <<>>, 0))
\* eval(os.environ)
N_eval_environ ==
    Expr(Call(Name("eval", 0), <<Attribute(Name("os", 5), "environ", 5)>>, <<>>, 0))
\* os.system(eval(x))
N_os_system_eval ==
    AttrCall("os", "system", <<Call(Name("eval", 10), <<Name("x", 15)>>, <<>>, 10)>>, <<>>)
\* foo(exec(x), input())
N_foo_exec_input ==
    Expr(Call(Name("foo", 0),
              <<Call(Name("exec", 4), <<Name("x", 9)>>, <<>>, 4),
                Call(Name("input", 13), <<>>, <<>>, 13)>>, <<>>, 0))
\* assert eval(x)
N_assert_eval == AssertStmt(Call(Name("eval", 7), <<Name("x", 12)>>, <<>>, 7))
\* q = 'SELECT ' + eval(x)
N_sql_eval ==
    Assign(<<Name("q", 0)>>,
           BinOp(Constant("str", "SELECT ", 4), "Add",
                 Call(Name("eval", 16), <<Name("x", 21)>>, <<>>, 16), 4))
\* q = ('DELETE ' + x) + ('select ' + y)
N_sql_sql ==
    Assign(<<Name("q", 0)>>,
           BinOp(BinOp(Constant("str", "DELETE ", 5), "Add", Name("x", 17), 5), "Add",
                 BinOp(Constant("str", "select ", 23), "Add", Name("y", 35), 23), 4))
\* try: / eval(x) / except: / exec(y)
N_try_bare ==
    Try(<<Shift(Expr(Call(Name("eval", 4), <<Name("x", 9)>>, <<>>, 4)), 1),
          ExceptHandler("bare",
              <<Shift(Expr(Call(Name("exec", 4), <<Name("y", 9)>>, <<>>, 4)), 3)>>, 2)>>)
\* try: / pass / except E: / assert x
N_try_typed ==
    Try(<<PassStmt(1, 4),
          ExceptHandler("typed",
              <<Name("E", 7), [Shift(AssertStmt(Name("x", 11)), 3) EXCEPT !.col = 4]>>, 2)>>)

NestPool ==
    {N_eval_eval, N_eval_environ, N_os_system_eval, N_foo_exec_input, N_assert_eval,
     N_sql_eval, N_sql_sql, N_try_bare, N_try_typed, S_foo, S_import_pickle}

InitNested == InitRules(NestPool)
SpecNested == InitNested /\ [][NextFile]_vars

-----------------------------------------------------------------------------
(* C22: every node of a file's syntax tree is visited in pre-order, the      *)
(* children of a node that matched a rule included, so each rule-matching    *)
(* node yields its finding and the findings of a file are listed in          *)
(* pre-order of their nodes.                                                 *)

\* the categories of the findings that the rules give for the node alone
RuleCategories(node) ==
    CASE node.kind = "Call" ->
            LET func == CallFunc(node)
            IN  IF func.kind = "Name" /\ func.s \in {"eval", "exec", "compile", "input"}
                THEN <<"Dangerous Sink">>
                ELSE IF /\ func.kind = "Attribute"
                        /\ func.kids[1].kind = "Name"
                        /\ (func.kids[1].s \o "." \o func.s) \in dangerous_sinks
                THEN <<"Command Injection">>
                ELSE <<>>
      [] node.kind = "Assert" -> <<"Debug Statement">>
      [] node.kind = "ExceptHandler" ->
            IF node.t = "bare" THEN <<"Poor Error Handling">> ELSE <<>>
      [] node.kind = "Attribute" ->
            IF node.kids[1].kind = "Name" /\ node.kids[1].s = "os" /\ node.s = "environ"
            THEN <<"Sensitive Access">> ELSE <<>>
      [] node.kind = "BinOp" ->
            IF /\ node.t = "Add"
               /\ IsStrLiteral(node.kids[1])
               /\ \E kw \in SqlKeywords : ContainsIgnoreCase(node.kids[1].s, kw)
               /\ node.kids[2].kind # "Constant"
            THEN <<"Potential SQL Injection">> ELSE <<>>
      [] node.kind = "Import" ->
            [i \in 1..Cardinality({k \in 1..Len(node.kids) :
                                      TopLevelName(node.kids[k].s) \in unsafe_modules})
                |-> "Insecure Import"]
      [] OTHER -> <<>>

\* the findings of the nodes of a tree in pre-order: the node, then its
\* children from the i-th on
RECURSIVE PreOrder(_, _)
RECURSIVE PreOrderKids(_, _, _)
PreOrder(node, base) ==
    [i \in 1..Len(RuleCategories(node)) |->
        [category |-> RuleCategories(node)[i], line |-> base + node.dl, col |-> node.col]]
    \o PreOrderKids(node, 1, base)

PreOrderKids(node, i, base) ==
    IF i > Len(node.kids) THEN <<>>
    ELSE PreOrder(node.kids[i], base) \o PreOrderKids(node, i + 1, base)

\* those of the first k statements of the body
RECURSIVE PreOrderBody(_, _)
PreOrderBody(body, k) ==
    IF k = 0 THEN <<>>
    ELSE PreOrderBody(body, k - 1) \o PreOrder(body[k], LineOf(body, k))

C22_FindingsInPreOrder ==
    fpc \in {"visiting", "returned"} /\ tree.src.state = "ok" =>
        [i \in 1..Len(scanner.findings) |->
            [category |-> scanner.findings[i].category,
             line |-> scanner.findings[i].line,
             col |-> scanner.findings[i].col]]
        = PreOrderBody(tree.src.body, stmt)

\* a file was scanned with eval(eval(x)) on line 1 and, from line 2 on, a try
\* with a flagged call in its body and one in its bare handler
C22_Witness ==
    /\ fpc = "returned"
    /\ tree.src.body = <<N_eval_eval, N_try_bare>>
    /\ Len(scanner.findings) = 5
    /\ scanner.findings[2].col = 5
    /\ scanner.findings[5].line = 5

-----------------------------------------------------------------------------
(* Files in which a name is assigned more than once.                         *)

MaxTaintStmts == 4

\* pw2 = other
S_pw2_other == Assign(<<Name("pw2", 0)>>, Name("other", 6))
\* password = foo()
S_password_foo == Assign(<<Name("password", 0)>>, Call(Name("foo", 11), <<>>, <<>>, 11))

TaintPool ==
    {S_password_lit, S_pw2_password, S_pw2_other, S_password_foo, S_send_pw2}

InitTaint ==
    /\ \E body \in SeqsUpTo(TaintPool, MaxTaintStmts) :
          tree = [path |-> "proj/m.py", src |-> Src(body)]
    /\ scanner = NoScanner
    /\ stmt = 0
    /\ fpc = "start"
    /\ InitDirIdle
    /\ InitExtIdle

SpecTaint == InitTaint /\ [][NextFile]_vars

-----------------------------------------------------------------------------
(* C23: during one file's scan the sensitive-name set and the alias relation *)
(* only grow: no operation removes a name or an edge, so a name once marked  *)
(* sensitive, or an alias once recorded, still taints call arguments after   *)
(* the name is reassigned to a non-literal or unrelated value.               *)

\* the 'Sensitive Data Exposure' findings stored for the argument name of the
\* call on the given line
StoredExposures(line, name) ==
    {i \in 1..Len(scanner.findings) :
        /\ scanner.findings[i].line = line
        /\ scanner.findings[i].severity = "MEDIUM"
        /\ scanner.findings[i].category = "Sensitive Data Exposure"
        /\ Contains(scanner.findings[i].message, "'" \o name \o "'")}

\* the names given a literal by the statements the scanner has visited
VisitedSecrets ==
    {tree.src.body[k].kids[1].s : k \in {j \in 1..stmt : IsSecretAssign(tree.src.body[j])}}

C23_TaintKept ==
    /\ VisitedSecrets \subseteq scanner.sensitive_vars
    /\ VisitedAliasEdges \subseteq scanner.aliases
    /\ \A k \in 1..stmt :
          IsCallStmt(tree.src.body[k]) =>
              \A a \in 1..tree.src.body[k].kids[1].n :
                  LET arg == CallArgs(tree.src.body[k].kids[1])[a]
                  IN  (arg.kind = "Name" /\ TaintedAt(tree.src.body, k, arg.s)) =>
                          StoredExposures(LineOf(tree.src.body, k), arg.s) # {}

C23_TaintOnlyGrows ==
    /\ []C23_TaintKept
    /\ [][/\ scanner.sensitive_vars \subseteq scanner'.sensitive_vars
          /\ scanner.aliases \subseteq scanner'.aliases]_vars

\* password got a literal and pw2 = password was recorded; pw2 was then
\* assigned another name, and the call send(pw2) on line 4 was still reported
C23_Witness ==
    /\ fpc = "returned"
    /\ tree.src.body = <<S_password_lit, S_pw2_password, S_pw2_other, S_send_pw2>>
    /\ scanner.aliases = {<<"pw2", "password">>, <<"pw2", "other">>}
    /\ StoredExposures(4, "pw2") # {}

-----------------------------------------------------------------------------
(* C24: the sensitive-data check of a call uses only the sensitive names and *)
(* alias edges accumulated before that call in traversal order: a call       *)
(* visited before the assignment that marks its argument sensitive, or       *)
(* before the assignment that records the alias, yields no 'Sensitive Data   *)
(* Exposure' finding, and none is added for it later.                        *)
C24_ExposureOfEarlierTaint ==
    \A k \in 1..stmt :
        IsCallStmt(tree.src.body[k]) =>
            \A a \in 1..tree.src.body[k].kids[1].n :
                LET arg == CallArgs(tree.src.body[k].kids[1])[a]
                IN  arg.kind = "Name" =>
                        (StoredExposures(LineOf(tree.src.body, k), arg.s) # {}
                            <=> TaintedAt(tree.src.body, k, arg.s))

C24_OnlyEarlierTaint ==
    /\ []C24_ExposureOfEarlierTaint
    /\ [][IsPrefix(scanner.findings, scanner'.findings)]_vars

\* send(pw2) stands before and after password = <literal>, and in another
\* file before and after pw2 = password: only the later call was reported
C24_Witness ==
    /\ fpc = "returned"
    /\ tree.src.body \in {<<S_pw2_password, S_send_pw2, S_password_lit, S_send_pw2>>,
                          <<S_password_lit, S_send_pw2, S_pw2_password, S_send_pw2>>}
    /\ StoredExposures(2, "pw2") = {}
    /\ StoredExposures(4, "pw2") # {}
    /\ Len(scanner.findings) = 2

-----------------------------------------------------------------------------
(* Assignments with several targets.                                         *)

\* user = password = "x"
M_user_password ==
    Assign(<<Name("user", 0), Name("password", 7)>>, Constant("str", "x", 18))
\* token = password = "x"
M_token_password ==
    Assign(<<Name("token", 0), Name("password", 8)>>, Constant("str", "x", 19))
\* user = name = "x"
M_user_name == Assign(<<Name("user", 0), Name("name", 7)>>, Constant("str", "x", 14))
\* user = password = val
M_user_password_val ==
    Assign(<<Name("user", 0), Name("password", 7)>>, Name("val", 18))
\* obj.user = password = 5
M_attr_password ==
    Assign(<<Attribute(Name("obj", 0), "user", 0), Name("password", 11)>>,
           Constant("int", "5", 22))
\* send(user)
S_send_user == Expr(Call(Name("send", 0), <<Name("user", 5)>>, <<>>, 0))

MultiPool ==
    {M_user_password, M_token_password, M_user_name, M_user_password_val, M_attr_password,
     S_send_user, S_send_password}

InitMulti == InitRules(MultiPool)
SpecMulti == InitMulti /\ [][NextFile]_vars

-----------------------------------------------------------------------------
(* C25: when an assignment with several targets has a literal value and at   *)
(* least one plain-name target whose lowercased name contains a sensitive    *)
(* keyword, every plain-name target of the assignment is added to the        *)
(* sensitive set, those without keyword included, while one 'Hardcoded       *)
(* Secret' finding is emitted per keyword-matching target only.              *)

\* the indices of the plain-name targets of an assignment
NameTargets(s) == {i \in 1..s.n : s.kids[i].kind = "Name"}

\* those whose lowercased name contains a sensitive keyword
KeywordTargets(s) ==
    {i \in NameTargets(s) : \E key \in sensitive_keywords : Contains(Lower(s.kids[i].s), key)}

\* the assignment has a literal value and a keyword-matching target
IsSensitiveAssign(s) ==
    s.kind = "Assign" /\ AssignValue(s).kind = "Constant" /\ KeywordTargets(s) # {}

\* the 'Hardcoded Secret' findings stored for the given line
StoredSecrets(line) ==
    {i \in 1..Len(scanner.findings) :
        /\ scanner.findings[i].line = line
        /\ scanner.findings[i].severity = "HIGH"
        /\ scanner.findings[i].category = "Hardcoded Secret"}

C25_AllTargetsMarked ==
    /\ scanner.sensitive_vars =
          UNION {{tree.src.body[k].kids[i].s : i \in NameTargets(tree.src.body[k])} :
                    k \in {j \in 1..stmt : IsSensitiveAssign(tree.src.body[j])}}
    /\ \A k \in 1..stmt :
          LET s == tree.src.body[k]
              line == LineOf(tree.src.body, k)
          IN  s.kind = "Assign" =>
                  /\ Cardinality(StoredSecrets(line)) =
                        IF IsSensitiveAssign(s) THEN Cardinality(KeywordTargets(s)) ELSE 0
                  /\ IsSensitiveAssign(s) =>
                        \A i \in KeywordTargets(s) :
                            \E f \in StoredSecrets(line) :
                                Contains(scanner.findings[f].message, "'" \o s.kids[i].s \o "'")

\* user = password = "x" was visited: one finding, both names sensitive, and
\* the call send(user) after it was reported
C25_Witness ==
    /\ fpc = "returned"
    /\ tree.src.body = <<M_user_password, S_send_user>>
    /\ Cardinality(StoredSecrets(1)) = 1
    /\ scanner.sensitive_vars = {"user", "password"}
    /\ StoredExposures(2, "user") # {}

-----------------------------------------------------------------------------
(* Calls that pass a sensitive name in several ways.                         *)

\* send(password, password)
A_send_pp ==
    Expr(Call(Name("send", 0), <<Name("password", 5), Name("password", 15)>>, <<>>, 0))
\* send(data=password)
A_send_kw ==
    Expr(Call(Name("send", 0), <<>>, <<Keyword("data", Name("password", 10), 5)>>, 0))
\* send(password, password, data=password)
A_send_pp_kw ==
    Expr(Call(Name("send", 0), <<Name("password", 5), Name("password", 15)>>,
              <<Keyword("data", Name("password", 30), 25)>>, 0))
\* send(x, password)
A_send_x_p ==
    Expr(Call(Name("send", 0), <<Name("x", 5), Name("password", 8)>>, <<>>, 0))
\* send(password.x)
A_send_attr ==
    Expr(Call(Name("send", 0), <<Attribute(Name("password", 5), "x", 5)>>, <<>>, 0))
\* send(str(password))
A_send_str ==
    Expr(Call(Name("send", 0),
              <<Call(Name("str", 5), <<Name("password", 9)>>, <<>>, 5)>>, <<>>, 0))

ArgPool ==
    {S_password_lit, S_send_password, A_send_pp, A_send_kw, A_send_pp_kw, A_send_x_p,
     A_send_attr, A_send_str}

InitArgs == InitRules(ArgPool)
SpecArgs == InitArgs /\ [][NextFile]_vars

-----------------------------------------------------------------------------
(* C26: the sensitive-data check examines only the positional arguments of a *)
(* call that are bare names: it emits one 'Sensitive Data Exposure' finding  *)
(* per tainted such argument (two for send(p, p)) and none for a tainted     *)
(* name passed only as the value of a keyword argument.                      *)

\* the calls of the k-th statement, with their line
CallsOfStmt(k) ==
    {n \in NodesOf(tree.src.body[k], LineOf(tree.src.body, k)) : n.node.kind = "Call"}

\* the positional arguments of the call that are bare names tainted before
\* statement k
TaintedNameArgs(call, k) ==
    {a \in 1..call.n : /\ CallArgs(call)[a].kind = "Name"
                       /\ TaintedAt(tree.src.body, k, CallArgs(call)[a].s)}

C26_OnePerTaintedNameArg ==
    \A k \in 1..stmt :
        \A n \in CallsOfStmt(k) :
            Cardinality(StoredAt(n, "Sensitive Data Exposure"))
                = Cardinality(TaintedNameArgs(n.node, k))

\* after password = <literal>, send(password, password, data=password) was
\* visited: two findings
C26_Witness ==
    /\ fpc = "returned"
    /\ tree.src.body = <<S_password_lit, A_send_pp_kw>>
    /\ Cardinality(StoredOfCategory("Sensitive Data Exposure")) = 2

-----------------------------------------------------------------------------
(* Calls of subprocess that pass a sensitive name.                           *)

\* subprocess.call(password, shell=True)
H_call_pw ==
    AttrCall("subprocess", "call", <<Name("password", 16)>>,
             <<Keyword("shell", Constant("bool", "True", 32), 26)>>)
\* subprocess.run(password, password, shell=True)
H_run_pw_pw ==
    AttrCall("subprocess", "run", <<Name("password", 15), Name("password", 25)>>,
             <<Keyword("shell", Constant("bool", "True", 41), 35)>>)
\* subprocess.Popen(password, shell=True)
H_popen_pw ==
    AttrCall("subprocess", "Popen", <<Name("password", 17)>>,
             <<Keyword("shell", Constant("bool", "True", 33), 27)>>)
\* subprocess.check_call(c, shell=True)
H_check_call ==
    AttrCall("subprocess", "check_call", <<Name("c", 22)>>,
             <<Keyword("shell", Constant("bool", "True", 31), 25)>>)

ShellPool ==
    {S_password_lit, H_call_pw, H_run_pw_pw, H_popen_pw, H_check_call,
     S_sub_check_output_true, S_sub_popen_true, S_sub_call, S_sub_call_false}

InitShell == InitRules(ShellPool)
SpecShell == InitShell /\ [][NextFile]_vars

-----------------------------------------------------------------------------
(* C27: one call node can yield several findings, always in the same order:  *)
(* for subprocess.call, check_call, check_output or run with shell=True one  *)
(* HIGH 'Command Injection' finding, then one CRITICAL 'Command Injection'   *)
(* finding, then any 'Sensitive Data Exposure' findings; subprocess.Popen    *)
(* with shell=True yields the CRITICAL finding but no HIGH one.              *)

\* severity and category of the findings stored for the given line, in order
StoredOnLine(line) ==
    LET on == SelectSeq(scanner.findings, LAMBDA f : f.line = line)
    IN  [i \in 1..Len(on) |-> <<on[i].severity, on[i].category>>]

\* what the call of statement k is to yield, in order
CallFindingsInOrder(k) ==
    LET n == [node |-> tree.src.body[k].kids[1], line |-> LineOf(tree.src.body, k)]
        attr == CallFunc(n.node).s
    IN  (IF attr \in {"call", "check_call", "check_output", "run"}
         THEN <<(<<"HIGH", "Command Injection">>)>> ELSE <<>>)
        \o (IF HasShellTrue(n) THEN <<(<<"CRITICAL", "Command Injection">>)>> ELSE <<>>)
        \o [i \in 1..Cardinality(TaintedNameArgs(n.node, k)) |->
               <<"MEDIUM", "Sensitive Data Exposure">>]

C27_CallFindingsOrdered ==
    \A k \in 1..stmt :
        (IsCallStmt(tree.src.body[k]) /\ IsQualifiedCall([node |-> tree.src.body[k].kids[1]],
                                                         "subprocess")) =>
            StoredOnLine(LineOf(tree.src.body, k)) = CallFindingsInOrder(k)

\* after password = <literal>, subprocess.run(password, password, shell=True)
\* was visited: HIGH, CRITICAL and two exposure findings
C27_Witness ==
    /\ fpc = "returned"
    /\ tree.src.body = <<S_password_lit, H_run_pw_pw>>
    /\ Len(StoredOnLine(2)) = 4
    /\ StoredOnLine(2)[2] = <<"CRITICAL", "Command Injection">>

-----------------------------------------------------------------------------
(* has_cycle(graph), statement by statement.  hc.stack holds the open calls  *)
(* of dfs, each with its node and the index i of the neighbour its loop is   *)
(* at; hc.keys is list(graph.keys()) and hc.key the index the outer loop is  *)
(* at; hc.entered lists the nodes dfs was called with.                       *)

MaxDfsEdges == 3

InitDfs ==
    /\ graph \in {GraphFromEdges(<<>>, es, 1) :
                    es \in SeqsUpTo(GraphNodes \X GraphNodes, MaxDfsEdges)}
    /\ pc = "has_cycle"
    /\ walk = <<>>
    /\ manifest = NoManifest
    /\ idx = 0
    /\ py_files = <<>>
    /\ all_scanners = <<>>
    /\ all_findings = <<>>
    /\ printed = <<>>
    /\ dependencies = <<>>
    /\ dep = 0
    /\ host = <<>>
    /\ cyclic = FALSE
    /\ exc = "None"
    /\ InitFileIdle
    /\ report_calls = [made |-> <<>>, todo |-> <<>>]
    /\ results = <<>>
    /\ InitMsdIdle
    /\ hc = [HasCycleIdle EXCEPT !.pc = "start"]

\* nothing but hc and graph changes
DfsFrame ==
    /\ UNCHANGED <<walk, manifest, pc, idx, py_files, all_scanners, all_findings, printed,
                   dependencies, dep, host, cyclic, exc>>
    /\ UNCHANGED fileVars
    /\ UNCHANGED <<report_calls, results, msdVars>>

\* lines 199-200: dfs(node) is entered
DfsEntered(h, node) ==
    [h EXCEPT !.pc = "dfs",
              !.stack = Append(@, [node |-> node, i |-> 1]),
              !.visited = @ \cup {node},
              !.rec_stack = @ \cup {node},
              !.entered = Append(@, node)]

\* graph[node] of line 201: the defaultdict gets the key when it lacks it
GraphTouched(g, node) ==
    IF \E i \in 1..Len(g) : g[i].key = node THEN g
    ELSE Append(g, [key |-> node, edges |-> <<>>])

\* lines 195-196 and list(graph.keys()) of line 210
HasCycleStart ==
    /\ hc.pc = "start"
    /\ hc' = [hc EXCEPT !.pc = "loop", !.keys = GraphKeys(graph), !.key = 1]
    /\ UNCHANGED graph
    /\ DfsFrame

\* lines 210-212: the next key of the outer loop
HasCycleNextKey ==
    /\ hc.pc = "loop"
    /\ hc.key <= Len(hc.keys)
    /\ LET node == hc.keys[hc.key]
       IN  hc' = IF node \notin hc.visited
                 THEN DfsEntered(hc, node)
                 ELSE [hc EXCEPT !.key = @ + 1]
    /\ UNCHANGED graph
    /\ DfsFrame

\* line 214: return False
HasCycleReturnFalse ==
    /\ hc.pc = "loop"
    /\ hc.key > Len(hc.keys)
    /\ hc' = [hc EXCEPT !.pc = "returned", !.result = FALSE]
    /\ UNCHANGED graph
    /\ DfsFrame

\* lines 201-203: the neighbour is not visited, dfs(neighbor) is called
DfsNeighbor ==
    /\ hc.pc = "dfs"
    /\ LET top == hc.stack[Len(hc.stack)]
           edges == GraphGet(graph, top.node)
       IN  /\ top.i <= Len(edges)
           /\ edges[top.i] \notin hc.visited
           /\ hc' = DfsEntered(hc, edges[top.i])
           /\ graph' = GraphTouched(graph, edges[top.i])
    /\ DfsFrame

\* lines 205-206: the neighbour is on the recursion stack; every open dfs and
\* has_cycle return True (lines 203-204 and 212-213)
DfsBackEdge ==
    /\ hc.pc = "dfs"
    /\ LET top == hc.stack[Len(hc.stack)]
           edges == GraphGet(graph, top.node)
       IN  /\ top.i <= Len(edges)
           /\ edges[top.i] \in hc.visited
           /\ edges[top.i] \in hc.rec_stack
    /\ hc' = [hc EXCEPT !.pc = "returned", !.result = TRUE, !.stack = <<>>]
    /\ UNCHANGED graph
    /\ DfsFrame

\* lines 201-206: the neighbour is visited and not on the recursion stack
DfsSkip ==
    /\ hc.pc = "dfs"
    /\ LET top == hc.stack[Len(hc.stack)]
           edges == GraphGet(graph, top.node)
       IN  /\ top.i <= Len(edges)
           /\ edges[top.i] \in hc.visited
           /\ edges[top.i] \notin hc.rec_stack
           /\ hc' = [hc EXCEPT !.stack[Len(hc.stack)].i = @ + 1]
    /\ UNCHANGED graph
    /\ DfsFrame

\* the open calls after the innermost one returned False: its caller goes on
\* with its next neighbour, has_cycle with its next key
DfsPopped(h) ==
    LET rest == SubSeq(h.stack, 1, Len(h.stack) - 1)
    IN  IF rest = <<>>
        THEN [h EXCEPT !.stack = rest, !.pc = "loop", !.key = @ + 1]
        ELSE [h EXCEPT !.stack = [rest EXCEPT ![Len(rest)].i = @ + 1]]

\* DfsReturn without rec_stack.remove(node)
DfsReturn_KeepStack ==
    /\ hc.pc = "dfs"
    /\ LET top == hc.stack[Len(hc.stack)]
       IN  /\ top.i > Len(GraphGet(graph, top.node))
           /\ hc' = DfsPopped(hc)
    /\ UNCHANGED graph
    /\ DfsFrame

\* lines 207-208: the loop is over, rec_stack.remove(node), return False
DfsReturn ==
    /\ hc.pc = "dfs"
    /\ LET top == hc.stack[Len(hc.stack)]
       IN  /\ top.i > Len(GraphGet(graph, top.node))
           /\ hc' = DfsPopped([hc EXCEPT !.rec_stack = @ \ {top.node}])
    /\ UNCHANGED graph
    /\ DfsFrame

NextDfs ==
    \/ HasCycleStart
    \/ HasCycleNextKey
    \/ HasCycleReturnFalse
    \/ DfsNeighbor
    \/ DfsBackEdge
    \/ DfsSkip
    \/ DfsReturn

SpecDfs == InitDfs /\ [][NextDfs]_vars

-----------------------------------------------------------------------------
(* C28: during has_cycle the recursion-stack set is always a subset of the   *)
(* visited set, the DFS enters each node at most once, and whenever          *)
(* has_cycle returns false the recursion-stack set is empty and every key of *)
(* the graph has been visited.                                               *)
C28_DfsInvariants ==
    /\ hc.rec_stack \subseteq hc.visited
    /\ \A i, j \in 1..Len(hc.entered) : i # j => hc.entered[i] # hc.entered[j]
    /\ (hc.pc = "returned" /\ ~hc.result) =>
          /\ hc.rec_stack = {}
          /\ Range(GraphKeys(graph)) \subseteq hc.visited

\* has_cycle has returned False for a graph of three nodes in which a node
\* was met again after its dfs had ended
C28_Witness ==
    /\ hc.pc = "returned"
    /\ ~hc.result
    /\ Len(hc.entered) = 3
    /\ \E i \in 1..Len(graph) : Len(graph[i].edges) = 2
    /\ \E n \in GraphNodes :
          Cardinality({i \in 1..Len(graph) : n \in Range(graph[i].edges)}) = 2

-----------------------------------------------------------------------------
(* Directories with files of the same name in different directories.         *)

MaxSameNameFiles == 3

SameNamePool ==
    {WalkEntry("proj", "a.py", Src(<<S_import_b>>)),
     WalkEntry("proj", "a.py", Src(<<S_eval>>)),
     WalkEntry("proj", "b.py", Src(<<S_eval>>)),
     WalkEntry("proj", "b.py", Src(<<S_import_os, S_import_b>>)),
     WalkEntry("proj/sub", "b.py", Src(<<S_import_a>>)),
     WalkEntry("proj/sub", "a.py", Src(<<S_import_os>>))}

InitSameName ==
    /\ walk \in {w \in SeqsUpTo(SameNamePool, MaxSameNameFiles) : IsWalk(w)}
    /\ manifest \in {NoManifest, Manifest(<<"urllib3==1.0.0\n">>)}
    /\ InitScanLocals
    /\ InitFileIdle
    /\ InitExtIdle

SpecSameName == InitSameName /\ [][Next]_vars

-----------------------------------------------------------------------------
(* C29: import-graph nodes are module base names: two .py files with the     *)
(* same file name in different directories under the scanned root are one    *)
(* node whose import edges are merged, so a cycle that exists only through   *)
(* the shared name is reported as a 'Circular Import'.                       *)

\* the base name of the i-th .py file of the walk
BaseNameOf(i) == SubSeq(walk[i].file, 1, Len(walk[i].file) - 3)

\* the imports of local modules of the .py files named m, file after file in
\* walk order, from the i-th entry on
RECURSIVE MergedImports(_, _)
MergedImports(m, i) ==
    IF i > Len(walk) THEN <<>>
    ELSE (IF IsPy(walk[i]) /\ BaseNameOf(i) = m
          THEN SelectSeq(run_scanner(PathOf(walk[i]), walk[i].src).imported_modules,
                         LAMBDA imp : imp \in LocalModules)
          ELSE <<>>)
         \o MergedImports(m, i + 1)

\* the graph whose nodes are base names has a cycle
NameCycle ==
    \E m \in LocalModules :
        m \in ReachSet([i \in 1..Len(walk) |->
                           [key |-> IF IsPy(walk[i]) THEN BaseNameOf(i) ELSE "",
                            edges |-> IF IsPy(walk[i]) THEN MergedImports(BaseNameOf(i), 1)
                                      ELSE <<>>]],
                       Range(MergedImports(m, 1)))

C29_SameNameOneNode ==
    pc \in {"sca", "audit", "done"} =>
        /\ \A i, j \in 1..Len(graph) : i # j => graph[i].key # graph[j].key
        /\ \A i \in 1..Len(graph) :
              /\ \E k \in 1..Len(walk) : IsPy(walk[k]) /\ graph[i].key = BaseNameOf(k)
              /\ graph[i].edges = MergedImports(graph[i].key, 1)
        /\ \A k \in 1..Len(walk) :
              (IsPy(walk[k]) /\ MergedImports(BaseNameOf(k), 1) # <<>>) =>
                  \E i \in 1..Len(graph) : graph[i].key = BaseNameOf(k)
        /\ FindingsOfCategory("Circular Import") # <<>> <=> NameCycle

\* proj/a.py imports b, proj/b.py imports nothing of the directory and
\* proj/sub/b.py imports a: the scan has returned a 'Circular Import' finding
C29_Witness ==
    /\ pc = "done"
    /\ walk = <<WalkEntry("proj", "a.py", Src(<<S_import_b>>)),
                WalkEntry("proj", "b.py", Src(<<S_eval>>)),
                WalkEntry("proj/sub", "b.py", Src(<<S_import_a>>))>>
    /\ Len(graph) = 2
    /\ Len(FindingsOfCategory("Circular Import")) = 1

-----------------------------------------------------------------------------
(* Manifests that name a package several times.                              *)

MaxDupLines == 3

DupLinePool ==
    {"urllib3==1.0.0\n",
     "urllib3==3.0.0\n",
     "urllib3\n",
     "python-json-logger==3.2.1\n"}

InitDups ==
    /\ walk = <<WalkEntry("proj", "a.py", Src(<<S_import_b, S_eval>>))>>
    /\ manifest \in {NoManifest} \cup {Manifest(l) : l \in SeqsUpTo(DupLinePool, MaxDupLines)}
    /\ InitScanLocals
    /\ InitFileIdle
    /\ InitExtIdle

SpecDups == InitDups /\ [][Next]_vars

-----------------------------------------------------------------------------
(* C30: the dependency audit keeps one version per package name, the one of  *)
(* the last manifest line naming that package, and so emits at most one      *)
(* 'Vulnerable Dependency' finding per distinct package name, also when      *)
(* several specifiers of the rule match or the package is listed several     *)
(* times.                                                                    *)

\* the last manifest entry that names pkg
LastEntryOf(pkg) ==
    Entries[CHOOSE k \in 1..Len(Entries) :
                /\ EntryName(Entries[k]) = pkg
                /\ \A j \in (k + 1)..Len(Entries) : EntryName(Entries[j]) # pkg]

C30_OneVersionPerPackage ==
    /\ (manifest.exists /\ pc \in {"audit", "done", "raised"}) =>
          /\ \A i, j \in 1..Len(dependencies) :
                i # j => dependencies[i].pkg # dependencies[j].pkg
          /\ {dependencies[i].pkg : i \in 1..Len(dependencies)}
                = {EntryName(Entries[k]) : k \in 1..Len(Entries)} \ {""}
          /\ \A i \in 1..Len(dependencies) :
                LET last == LastEntryOf(dependencies[i].pkg)
                IN  /\ dependencies[i].hasVer = EntryHasVersion(last)
                    /\ EntryHasVersion(last) => dependencies[i].ver = EntryVersion(last)
    /\ \A r \in 1..Len(vulnerable_deps) :
          Cardinality(VulnerableFindings(
              "Vulnerable dependency " \o vulnerable_deps[r].pkg \o " ",
              vulnerable_deps[r].cve)) <= 1

\* the manifest names urllib3 twice, each time in a vulnerable way: the scan
\* has returned one finding, about the second line
C30_Witness ==
    /\ pc = "done"
    /\ manifest.lines = <<"urllib3==1.0.0\n", "urllib3\n">>
    /\ Len(dependencies) = 1
    /\ Cardinality(VulnerableFindings("Vulnerable dependency urllib3 unspecified",
                                      "CVE-2025-66418")) = 1
    /\ Len(FindingsOfCategory("Vulnerable Dependency")) = 1

====
